---- MODULE Spec2Model ----
(***************************************************************************)
(* Graph construction in TFNetworkLayer.py: tensor descriptors (Data) are  *)
(* heap objects shared by reference between layers; the network keeps a    *)
(* concat/dropout cache; layers are constructed over already built         *)
(* sources.  Tensor handles are indices into the table of built ops,       *)
(* descriptors are indices into the table of Data objects, and the         *)
(* size_placeholder dicts are indices into the table of dicts, so that     *)
(* aliasing (two names for one object) is visible in the model.            *)
(***************************************************************************)
EXTENDS Integers, Sequences, FiniteSets, TLC

VARIABLES train_flag, layers, data, dicts, ops, concat_sources_dropout_cache,
          random_draws, last, first_ret,
          cells,    \* the RNN cell objects constructed so far
          losses,   \* per layer with a target or loss: target, loss object
          build,    \* a graph description being built through get_layer
          used_data_keys,     \* the external inputs marked as used
          LayerClassDict,     \* _LayerClassDict: layer_class name -> class
          LossClassDict,      \* _LossClassDict: class_name -> class
          last_hidden_state,  \* per layer that keeps one: its final state
          dataset             \* a GeneratingDataset

vars == <<train_flag, layers, data, dicts, ops, concat_sources_dropout_cache,
          random_draws, last, first_ret, cells, losses, build, used_data_keys,
          LayerClassDict, LossClassDict, last_hidden_state, dataset>>

----------------------------------------------------------------------------
(* Bounds of the model. *)

NumSources == 2      \* source layers that exist when the network is set up
MaxLayers == 3       \* layers in the network, source layers included
MaxOps == 5          \* tensor ops in the graph, the inputs' placeholders included
MaxT == 3            \* largest physical time extent of an input
BatchSize == 2       \* examples in a batch

(* Python's None, for optional integers (axes, dims, slice bounds). *)
None == -1000

Max(a, b) == IF a >= b THEN a ELSE b
Min(a, b) == IF a <= b THEN a ELSE b

Range(s) == {s[i] : i \in DOMAIN s}

RECURSIVE SumSeq(_)
SumSeq(s) == IF s = <<>> THEN 0 ELSE Head(s) + SumSeq(Tail(s))

RECURSIVE MaxSeq(_)
MaxSeq(s) == IF s = <<>> THEN 0 ELSE Max(Head(s), MaxSeq(Tail(s)))

(* s[:-1] and s[-1] of a non-empty tuple *)
Prefix(s) == SubSeq(s, 1, Len(s) - 1)
LastOf(s) == s[Len(s)]

(* the element of a one-element set: {e(x) : x \in {v}} names v once *)
The(S) == CHOOSE x \in S : TRUE

(* Python truthiness of an optional integer: None and 0 are false. *)
Truthy(x) == x # None /\ x # 0

(* d[key] = v and d.setdefault(key, v) on a dict d *)
DictSet(d, key, v) ==
  [k \in DOMAIN d \cup {key} |-> IF k = key THEN v ELSE d[k]]

SetDefault(d, key, v) == IF key \in DOMAIN d THEN d ELSE DictSet(d, key, v)

----------------------------------------------------------------------------
(* Data (TFUtil), as far as TFNetworkLayer.py uses it. *)

(* Data(name, shape, dim, sparse, batch_dim_axis, time_dim_axis, dtype):   *)
(* a template, no placeholder and no size_placeholder yet.                 *)
NewData(shape, dim, sparse, batch_dim_axis, time_dim_axis, dtype) ==
  [shape |-> shape, dim |-> dim, sparse |-> sparse,
   batch_dim_axis |-> batch_dim_axis, time_dim_axis |-> time_dim_axis,
   dtype |-> dtype, placeholder |-> 0, size_placeholder |-> 0]

(* Data.time_dim_axis_excluding_batch *)
time_dim_axis_excluding_batch(d) ==
  IF d.time_dim_axis = None THEN None
  ELSE IF d.batch_dim_axis = None \/ d.time_dim_axis < d.batch_dim_axis
       THEN d.time_dim_axis
       ELSE d.time_dim_axis - 1

(* Data.get_batch_axis_excluding_batch(axis) *)
get_batch_axis_excluding_batch(d, axis) ==
  IF d.batch_dim_axis = None THEN axis
  ELSE IF axis = d.batch_dim_axis THEN None
  ELSE IF axis < d.batch_dim_axis THEN axis
  ELSE axis - 1

(* Data.batch_ndim: number of axes of the placeholder, batch axis included *)
batch_ndim(d) == Len(d.shape) + (IF d.batch_dim_axis = None THEN 0 ELSE 1)

(* Data.batch_shape: shape with the batch axis (None) put in *)
batch_shape(d) ==
  IF d.batch_dim_axis = None THEN d.shape
  ELSE [i \in 1..(Len(d.shape) + 1) |->
          IF i - 1 < d.batch_dim_axis THEN d.shape[i]
          ELSE IF i - 1 = d.batch_dim_axis THEN None
          ELSE d.shape[i - 1]]

----------------------------------------------------------------------------
(* The mutable part of the network as one record, so that the code's calls *)
(* compose: every operation takes the store and returns the new store.     *)

Store == [data |-> data, dicts |-> dicts, ops |-> ops,
          cache |-> concat_sources_dropout_cache, random |-> random_draws,
          used |-> used_data_keys]

(* a new Data object / dict / op is appended; its index is its identity *)
AllocData(st, d) == [st EXCEPT !.data = Append(@, d)]
AllocDict(st, m) == [st EXCEPT !.dicts = Append(@, m)]
AllocOp(st, o) == [st EXCEPT !.ops = Append(@, o)]

Op(kind, srcs, rate, input, T) ==
  [kind |-> kind, srcs |-> srcs, rate |-> rate, input |-> input, T |-> T]

OutputOf(st, l) == st.data[layers[l].output]

(* what a target refers to: network.get_extern_data(target) if the         *)
(* network has an external input of that name - the external inputs are    *)
(* the first NumSources Data objects - and else the output of the layer    *)
(* of that name                                                            *)
TargetData(st, target) ==
  IF target \in 1..NumSources THEN st.data[target] ELSE OutputOf(st, target)

(* Data.copy(): a new object with the same fields and the same             *)
(* placeholder; the size_placeholder dict is copied.                       *)
DataCopy(st, id) ==
  LET d == st.data[id]
      st1 == IF d.size_placeholder = 0 THEN st
             ELSE AllocDict(st, st.dicts[d.size_placeholder])
      d1 == IF d.size_placeholder = 0 THEN d
            ELSE [d EXCEPT !.size_placeholder = Len(st1.dicts)]
      st2 == AllocData(st1, d1)
  IN [st |-> st2, ret |-> Len(st2.data)]

----------------------------------------------------------------------------
(* concat_sources and concat_sources_with_opt_dropout. *)

(* Dropout rates are kept in tenths: 5 is dropout=0.5, 10 is dropout=1.0. *)
RateOne == 10

(* what a call gives back: it raised or it returned the descriptor ret;   *)
(* a constructor also gives the new layer's input_data                     *)
Failed(st) == [ok |-> FALSE, st |-> st, ret |-> 0, input_data |-> 0]
Returned(st, id) == [ok |-> TRUE, st |-> st, ret |-> id, input_data |-> 0]
Built(st, output, input_data) ==
  [ok |-> TRUE, st |-> st, ret |-> output, input_data |-> input_data]

(* the cache key (tuple(src_layers), float(dropout)) *)
CacheKey(srcs, rate) == <<srcs, rate>>

(* the first source's width alone *)
ConcatDim_FirstOnly(st, srcs) == LastOf(OutputOf(st, srcs[1]).shape)

(* get_concat_sources_data_template: dim += shape[-1] over the sources *)
ConcatDim(st, srcs) ==
  SumSeq([i \in DOMAIN srcs |-> LastOf(OutputOf(st, srcs[i]).shape)])

(* get_concat_sources_data_template: assert src_layers; shape[-1] must be  *)
(* there and truthy for every source                                       *)
ConcatTemplateOk(st, srcs) ==
  /\ srcs # <<>>
  /\ \A i \in DOMAIN srcs :
       LET shape == OutputOf(st, srcs[i]).shape
       IN shape # <<>> /\ Truthy(LastOf(shape))

get_concat_sources_data_template(st, srcs) ==
  LET first == OutputOf(st, srcs[1])
      dim == ConcatDim(st, srcs)
  IN NewData(Append(Prefix(first.shape), dim), dim, FALSE,
             first.batch_dim_axis, first.time_dim_axis, first.dtype)

(* the asserts of concat_sources on every source, against the template *)
ConcatSourcesOk(st, srcs, tmpl) ==
  \A i \in DOMAIN srcs :
    LET o == OutputOf(st, srcs[i])
    IN /\ ~o.sparse
       /\ o.dtype = tmpl.dtype
       /\ time_dim_axis_excluding_batch(o) = time_dim_axis_excluding_batch(tmpl)
       /\ o.shape # <<>>
       /\ Prefix(o.shape) = Prefix(tmpl.shape)
       /\ Truthy(LastOf(o.shape))

(* a copy of the single source's descriptor instead of the descriptor *)
concat_sources_single_Copy(st, srcs) ==
  LET c == DataCopy(st, layers[srcs[1]].output)
  IN Returned(c.st, c.ret)

(* concat_sources, len(src_layers) == 1: the source's own descriptor *)
concat_sources_single(st, srcs) == Returned(st, layers[srcs[1]].output)

(* concat_sources, cache hit: a copy of the cached descriptor *)
concat_sources_cached(st, srcs) ==
  LET c == DataCopy(st, st.cache[CacheKey(srcs, 0)])
  IN Returned(c.st, c.ret)

(* concat_sources, cache miss: build tf.concat, take the first source's    *)
(* size_placeholder (copied), store a copy in the cache                    *)
concat_sources_build(st, srcs) ==
  LET tmpl == get_concat_sources_data_template(st, srcs)
      first == OutputOf(st, srcs[1])
  IN The({ The({ The({ The({
       Returned([c.st EXCEPT !.cache =
                   [k \in DOMAIN @ \cup {CacheKey(srcs, 0)} |->
                      IF k = CacheKey(srcs, 0) THEN c.ret ELSE @[k]]],
                Len(st3.data))
       : c \in {DataCopy(st3, Len(st3.data))} })
       : st3 \in {AllocData(st2, [tmpl EXCEPT !.placeholder = Len(st1.ops),
                                              !.size_placeholder = Len(st2.dicts)])} })
       : st2 \in {AllocDict(st1, st.dicts[first.size_placeholder])} })
       : st1 \in {AllocOp(st, Op("concat", srcs, 0, first.placeholder,
                                 st.ops[first.placeholder].T))} })

concat_sources(st, srcs) ==
  IF srcs = <<>> THEN Failed(st)
  ELSE IF Len(srcs) = 1 THEN concat_sources_single(st, srcs)
  ELSE IF CacheKey(srcs, 0) \in DOMAIN st.cache
       THEN concat_sources_cached(st, srcs)
  ELSE IF ~ConcatTemplateOk(st, srcs) THEN Failed(st)
  ELSE IF ~ConcatSourcesOk(st, srcs, get_concat_sources_data_template(st, srcs))
       THEN Failed(st)
  ELSE concat_sources_build(st, srcs)

(* the requested rate whatever the train_flag is *)
EffectiveDropout_IgnoresTrainFlag(flag, dropout) == dropout

(* if network.train_flag is False: dropout = 0 *)
EffectiveDropout(flag, dropout) == IF flag = "False" THEN 0 ELSE dropout

(* the dropout branch on a cache miss: data.placeholder is assigned the    *)
(* cond_on_train op, one seed is drawn, a copy goes into the cache         *)
apply_dropout(st, srcs, rate, id) ==
  LET x == st.data[id].placeholder
      st1 == AllocOp([st EXCEPT !.random = @ + 1],
                     Op("dropout", srcs, rate, x, st.ops[x].T))
      st2 == [st1 EXCEPT !.data[id].placeholder = Len(st1.ops)]
      c == DataCopy(st2, id)
      st3 == [c.st EXCEPT !.cache =
                [k \in DOMAIN @ \cup {CacheKey(srcs, rate)} |->
                   IF k = CacheKey(srcs, rate) THEN c.ret ELSE @[k]]]
  IN Returned(st3, id)

concat_sources_with_opt_dropout(st, flag, srcs, dropout) ==
  IF srcs = <<>> THEN Failed(st)
  ELSE
    LET rate == EffectiveDropout(flag, dropout)
    IN The({ IF ~r.ok THEN r
             ELSE IF rate = 0 THEN r
             ELSE IF CacheKey(srcs, rate) \in DOMAIN r.st.cache
                  THEN LET c == DataCopy(r.st, r.st.cache[CacheKey(srcs, rate)])
                       IN Returned(c.st, c.ret)
             ELSE IF ~(0 < rate /\ rate < RateOne) THEN Failed(r.st)
             ELSE apply_dropout(r.st, srcs, rate, r.ret)
             : r \in {concat_sources(st, srcs)} })

----------------------------------------------------------------------------
(* Layers that copy their input: CopyLayer, ActivationLayer,               *)
(* BatchNormLayer.                                                         *)

(* LayerBase.batch_norm: a new tensor computed from data.placeholder *)
batch_norm(st, id) ==
  LET x == st.data[id].placeholder
  IN AllocOp(st, Op("batch_norm", <<>>, 0, x, st.ops[x].T))

(* LayerBase.post_init: if self.use_batch_norm, self.output.placeholder    *)
(* is assigned the normalized tensor                                       *)
post_init(st, output, use_batch_norm) ==
  IF use_batch_norm
  THEN LET st1 == batch_norm(st, output)
       IN [st1 EXCEPT !.data[output].placeholder = Len(st1.ops)]
  ELSE st

(* CopyLayer.__init__: LayerBase.__init__ takes the template of            *)
(* get_out_data_from_opts as self.output, _ConcatInputLayer.__init__ sets  *)
(* self.input_data, and then self.output = self.input_data                 *)
CopyLayer_init(st, flag, srcs, dropout) ==
  IF ~ConcatTemplateOk(st, srcs) THEN Failed(st)
  ELSE The({ The({ IF ~r.ok THEN Failed(r.st) ELSE Built(r.st, r.ret, r.ret)
                   : r \in {concat_sources_with_opt_dropout(st1, flag, srcs, dropout)} })
             : st1 \in {AllocData(st, get_concat_sources_data_template(st, srcs))} })

(* OutputWithActivation(x, act_func).y: act_func(x), or x itself without   *)
(* an activation function                                                  *)
OutputWithActivation_y(st, x, activation) ==
  IF activation # "none"
  THEN LET st1 == AllocOp(st, Op("activation", <<>>, 0, x, st.ops[x].T))
       IN [st |-> st1, y |-> Len(st1.ops)]
  ELSE [st |-> st, y |-> x]

(* ActivationLayer.__init__: self.output.placeholder =                     *)
(* self.output_before_activation.y                                         *)
ActivationLayer_set_output(st, output, y) ==
  [st EXCEPT !.data[output].placeholder = y]

ActivationLayer_init(st, flag, srcs, dropout, activation) ==
  The({ IF ~c.ok THEN c
        ELSE LET a == OutputWithActivation_y(
                        c.st, c.st.data[c.input_data].placeholder, activation)
             IN Built(ActivationLayer_set_output(a.st, c.ret, a.y),
                      c.ret, c.input_data)
        : c \in {CopyLayer_init(st, flag, srcs, dropout)} })

(* BatchNormLayer.__init__ passes use_batch_norm=... up to                 *)
(* LayerBase.__init__, whose parameter is named batch_norm and which       *)
(* takes no **kwargs: the call raises TypeError before any statement of    *)
(* LayerBase.__init__ has run.                                             *)
BatchNormLayer_init(st, flag, srcs) == Failed(st)

----------------------------------------------------------------------------
(* SliceLayer. *)

(* Python's a // b *)
FloorDiv(a, b) == IF b > 0 THEN a \div b ELSE (0 - a) \div (0 - b)

(* len(range(n)[start:end:step]), the extent a slice leaves of an axis of  *)
(* extent n; None is an omitted bound, step is not 0                       *)
SliceLen(n, start, end, step) ==
  LET st == IF step = None THEN 1 ELSE step
      Clamp(x, lo, hi) == Max(lo, Min(hi, x))
      Adjust(x, lo, hi) == Clamp(IF x < 0 THEN x + n ELSE x, lo, hi)
  IN IF st > 0
     THEN LET a == IF start = None THEN 0 ELSE Adjust(start, 0, n)
              b == IF end = None THEN n ELSE Adjust(end, 0, n)
          IN IF b > a THEN (b - a - 1) \div st + 1 ELSE 0
     ELSE LET a == IF start = None THEN n - 1 ELSE Adjust(start, 0 - 1, n - 1)
              b == IF end = None THEN 0 - 1 ELSE Adjust(end, 0 - 1, n - 1)
          IN IF a > b THEN (a - b - 1) \div (0 - st) + 1 ELSE 0

(* Data.get_axes(exclude_time=True, exclude_batch=True), counted with the  *)
(* batch axis                                                              *)
get_axes_excluding_time_batch(d) ==
  {a \in 0..(batch_ndim(d) - 1) : a # d.batch_dim_axis /\ a # d.time_dim_axis}

(* SliceLayer._get_axis: the axis to slice, counted with the batch axis;   *)
(* ok is false where an assert fails                                       *)
SliceLayer_get_axis(axis, axis_kind, d) ==
  IF axis # None
  THEN [ok |-> axis_kind = "" /\ 0 <= axis /\ axis < batch_ndim(d), axis |-> axis]
  ELSE IF axis_kind = "" THEN [ok |-> FALSE, axis |-> None]
  ELSE IF axis_kind = "T"
       THEN [ok |-> d.time_dim_axis # None, axis |-> d.time_dim_axis]
  ELSE IF axis_kind = "B"
       THEN [ok |-> d.batch_dim_axis # None, axis |-> d.batch_dim_axis]
  ELSE LET axes == get_axes_excluding_time_batch(d)
       IN [ok |-> Cardinality(axes) = 1,
           axis |-> IF axes = {} THEN None ELSE CHOOSE a \in axes : TRUE]

(* SliceLayer.get_out_data_from_opts: the concat template with the sliced  *)
(* axis's static extent, and the dim if it is the feature axis             *)
SliceLayer_get_out_data_from_opts(tmpl, axis, start, end, step) ==
  LET w == get_batch_axis_excluding_batch(tmpl, axis)
      shape == IF w # None /\ tmpl.shape[w + 1] # None
               THEN [tmpl.shape EXCEPT
                       ![w + 1] = SliceLen(tmpl.shape[w + 1], start, end, step)]
               ELSE tmpl.shape
  IN [tmpl EXCEPT !.shape = shape,
                  !.dim = IF w # None /\ w = Len(shape) - 1 /\ ~tmpl.sparse
                          THEN shape[w + 1] ELSE @]

(* size - slice_start without the tf.maximum(0, ...) *)
SliceSizeStart_NoClamp(lens, slice_start) ==
  [i \in DOMAIN lens |-> lens[i] - slice_start]

(* size - slice_start, not below 0, for every example *)
SliceSizeStart(lens, slice_start) ==
  [i \in DOMAIN lens |-> Max(0, lens[i] - slice_start)]

(* the smaller of tf.shape(placeholder)[time axis] - slice_end and size *)
SliceSizeEnd(lens, T, slice_end) ==
  [i \in DOMAIN lens |-> Min(T - slice_end, lens[i])]

(* size //= slice_step *)
SliceSizeStep(lens, slice_step) ==
  [i \in DOMAIN lens |-> FloorDiv(lens[i], slice_step)]

(* size_placeholder[t] as a statement of SliceLayer.__init__ reads it from  *)
(* the dict sp (no lengths where the read raises KeyError)                 *)
SliceSizeRead(s, sp, t) ==
  IF t \in DOMAIN s.st.dicts[sp] THEN s.st.dicts[sp][t] ELSE <<>>

(* one "if slice_x: assert ...; size_placeholder[t] = new" statement on    *)
(* the dict sp: s carries the store and whether an earlier statement       *)
(* raised; a key that is not in the dict raises KeyError                   *)
SliceStatement(s, given, asserted, sp, t, new) ==
  IF ~s.ok \/ ~given THEN s
  ELSE IF ~asserted \/ t \notin DOMAIN s.st.dicts[sp] THEN [s EXCEPT !.ok = FALSE]
  ELSE [s EXCEPT !.st.dicts[sp][t] = new]

(* self.output.size_placeholder = self.input_data.size_placeholder: the    *)
(* output refers to the dict of the input                                  *)
SliceLayer_share_sizes(st, output, input_data) ==
  [st EXCEPT !.data[output].size_placeholder = st.data[input_data].size_placeholder]

(* SliceLayer.__init__ after _ConcatInputLayer.__init__ *)
SliceLayer_body(st0, output, input, axis, start, end, step) ==
  LET st == SliceLayer_share_sizes(st0, output, input)
      d == st.data[input]
      sp == d.size_placeholder
      t == time_dim_axis_excluding_batch(d)
      w == get_batch_axis_excluding_batch(d, axis)
      T == st.ops[d.placeholder].T
      s0 == [ok |-> TRUE, st |-> st]
      s1 == SliceStatement(s0, Truthy(start), start > 0, sp, t,
                           SliceSizeStart(SliceSizeRead(s0, sp, t), start))
      s2 == SliceStatement(s1, Truthy(end), end > 0, sp, t,
                           SliceSizeEnd(SliceSizeRead(s1, sp, t), T, end))
      s3 == SliceStatement(s2, Truthy(step), TRUE, sp, t,
                           SliceSizeStep(SliceSizeRead(s2, sp, t), step))
      s == IF axis = d.time_dim_axis THEN s3
           ELSE IF w # None /\ w \in DOMAIN st.dicts[sp]
                THEN [s0 EXCEPT !.ok = FALSE] ELSE s0
  IN IF ~s.ok \/ step = 0 THEN Failed(s.st)
     ELSE LET st1 == AllocOp(s.st,
                       Op("slice", <<>>, 0, d.placeholder,
                          IF axis = d.time_dim_axis
                          THEN SliceLen(T, start, end, step) ELSE T))
          IN Built([st1 EXCEPT !.data[output].placeholder = Len(st1.ops)],
                   output, input)

SliceLayer_init(st, flag, srcs, dropout, axis, axis_kind, start, end, step) ==
  IF ~ConcatTemplateOk(st, srcs) THEN Failed(st)
  ELSE
    LET tmpl == get_concat_sources_data_template(st, srcs)
        a == SliceLayer_get_axis(axis, axis_kind, tmpl)
    IN IF ~a.ok \/ step = 0 THEN Failed(st)
       ELSE
         LET st1 == AllocData(st, SliceLayer_get_out_data_from_opts(
                                    tmpl, a.axis, start, end, step))
             output == Len(st1.data)
         IN The({ IF ~r.ok THEN Failed(r.st)
                  ELSE SliceLayer_body(r.st, output, r.ret, a.axis, start, end, step)
                  : r \in {concat_sources_with_opt_dropout(st1, flag, srcs, dropout)} })

----------------------------------------------------------------------------
(* ReduceLayer. *)

(* Data.get_dynamic_batch_axes(): the axes of batch_shape without a static *)
(* extent, the batch axis among them, counted with the batch axis          *)
get_dynamic_batch_axes(d) ==
  {a \in 0..(batch_ndim(d) - 1) : batch_shape(d)[a + 1] = None}

(* Data.get_non_dynamic_axes(): the axes of shape with a static extent,    *)
(* counted without the batch axis (ConvLayer adds them to                  *)
(* get_dynamic_axes() to get range(ndim))                                  *)
get_non_dynamic_axes(d) ==
  {a \in 0..(Len(d.shape) - 1) : d.shape[a + 1] # None}

(* ReduceLayer._get_axis: the set of axes to reduce, each taken modulo     *)
(* batch_ndim; the argument is a name or a list of indices; ok is false    *)
(* where the code raises                                                   *)
ReduceLayer_get_axis(arg, d) ==
  LET name == arg.name
      axes ==
        IF name = "" THEN Range(arg.axes)
        ELSE IF name \in {"b", "batch"} THEN {0}
        ELSE IF name = "spatial"
             THEN get_dynamic_batch_axes(d) \ {d.batch_dim_axis}
        ELSE IF name = "spatial_except_time"
             THEN get_dynamic_batch_axes(d) \ {d.batch_dim_axis, d.time_dim_axis}
        ELSE IF name \in {"f", "feature"} THEN get_non_dynamic_axes(d)
        ELSE {}
      removable ==
        /\ name \in {"spatial", "spatial_except_time"}
             => d.batch_dim_axis \in get_dynamic_batch_axes(d)
        /\ name = "spatial_except_time"
             => d.time_dim_axis \in get_dynamic_batch_axes(d)
      known == name \in {"", "b", "batch", "spatial", "spatial_except_time",
                         "f", "feature"}
  IN [ok |-> known /\ removable /\ axes # {},
      axes |-> {a % batch_ndim(d) : a \in axes}]

(* del s[i] for every i of axes, from the highest down (i counted from 0) *)
RECURSIVE DeleteAxes(_, _)
DeleteAxes(s, axes) ==
  IF axes = {} THEN s
  ELSE LET i == CHOOSE a \in axes : \A b \in axes : b <= a
       IN DeleteAxes([k \in 1..(Len(s) - 1) |-> IF k <= i THEN s[k] ELSE s[k + 1]],
                     axes \ {i})

(* ReduceLayer.get_out_data_from_opts: Data(shape=y_shape[1:], dtype,      *)
(* sparse=False); the axes are the defaults of Data                        *)
ReduceLayer_get_out_data_from_opts(tmpl, axes, keep_dims) ==
  LET bs == batch_shape(tmpl)
      y_shape == IF keep_dims
                 THEN [k \in DOMAIN bs |-> IF (k - 1) \in axes THEN 1 ELSE bs[k]]
                 ELSE DeleteAxes(bs, axes)
      shape == Tail(y_shape)
  IN NewData(shape, IF shape = <<>> THEN None ELSE LastOf(shape), FALSE,
             0, None, tmpl.dtype)

(* a length that is the number n, not a tensor with one entry per example *)
Scalar(n) == <<n>>

(* keep_dims: y_dyn_sizes[i] = 1 for every reduced axis i that is a key *)
ReduceSizesKeepDims(sizes, axes) ==
  [k \in DOMAIN sizes |-> IF k \in axes THEN Scalar(1) ELSE sizes[k]]

(* one round of the loop without keep_dims: del y_dyn_sizes[i] if i is a   *)
(* key, then every key j >= i becomes j - 1                                *)
ReduceSizesDrop(sizes, i) ==
  LET keys == DOMAIN sizes \ {i}
  IN [k \in {IF j < i THEN j ELSE j - 1 : j \in keys} |->
        sizes[CHOOSE j \in keys : k = IF j < i THEN j ELSE j - 1]]

(* for i in reversed(sorted(axis)) *)
RECURSIVE ReduceSizes(_, _)
ReduceSizes(sizes, axes) ==
  IF axes = {} THEN sizes
  ELSE LET i == CHOOSE a \in axes : \A b \in axes : b <= a
       IN ReduceSizes(ReduceSizesDrop(sizes, i), axes \ {i})

(* ReduceLayer.__init__ *)
ReduceLayer_init(st, flag, srcs, dropout, arg, keep_dims) ==
  IF ~ConcatTemplateOk(st, srcs) THEN Failed(st)
  ELSE
    LET tmpl == get_concat_sources_data_template(st, srcs)
        a == ReduceLayer_get_axis(arg, tmpl)
    IN IF ~a.ok THEN Failed(st)
       ELSE
         LET st1 == AllocData(st, ReduceLayer_get_out_data_from_opts(
                                    tmpl, a.axes, keep_dims))
             output == Len(st1.data)
         IN The({
              IF ~r.ok THEN Failed(r.st)
              ELSE IF r.st.data[r.ret].sparse THEN Failed(r.st)
              ELSE
                LET d == r.st.data[r.ret]
                    sizes == r.st.dicts[d.size_placeholder]
                    st2 == AllocOp(r.st, Op("reduce", <<>>, 0, d.placeholder,
                                            r.st.ops[d.placeholder].T))
                    st3 == AllocDict(st2, IF keep_dims
                                          THEN ReduceSizesKeepDims(sizes, a.axes)
                                          ELSE ReduceSizes(sizes, a.axes))
                IN Built([st3 EXCEPT !.data[output].placeholder = Len(st2.ops),
                                     !.data[output].size_placeholder = Len(st3.dicts)],
                         output, r.ret)
              : r \in {concat_sources_with_opt_dropout(st1, flag, srcs, dropout)} })

----------------------------------------------------------------------------
(* Targets and losses: LayerBase.get_out_data_from_opts, LinearLayer,      *)
(* Loss, CrossEntropyLoss, GenericCELoss, CtcLoss.                         *)

(* Data.ndim, Data.ndim_dense, Data.have_tim_axis, Data.is_time_major *)
ndim(d) == Len(d.shape)
ndim_dense(d) == IF d.sparse THEN Len(d.shape) + 1 ELSE Len(d.shape)
have_tim_axis(d) == d.time_dim_axis # None
is_time_major(d) == d.time_dim_axis = 0

(* Data.matches_dim_pattern(other): the batch and time axis and the shape  *)
(* up to the feature axis are the same                                     *)
matches_dim_pattern(a, b) ==
  /\ a.batch_dim_axis = b.batch_dim_axis
  /\ a.time_dim_axis = b.time_dim_axis
  /\ Len(a.shape) = Len(b.shape)
  /\ \A i \in 1..(Len(a.shape) - 1) : a.shape[i] = b.shape[i]

LossClasses == {"ce", "generic_ce", "ctc"}

(* a CtcLoss that adds no output for the blank label *)
get_auto_output_layer_dim_NoBlank(cls, target_dim) == target_dim

(* Loss.get_auto_output_layer_dim; CtcLoss adds one for the blank label *)
get_auto_output_layer_dim(cls, target_dim) ==
  IF cls = "ctc" THEN target_dim + 1 ELSE target_dim

(* network.extern_data.default_target: the last of the external inputs *)
DefaultTarget == NumSources

(* "if loss and not target: target = default_target"; no loss is "none",   *)
(* no target is 0                                                          *)
EffectiveTarget(target, loss) ==
  IF loss # "none" /\ target = 0 THEN DefaultTarget ELSE target

(* the n_out that get_out_data_from_opts works with when no out_type is    *)
(* given: the given one, or else the target's dim put through the loss     *)
InferredNOut(st, n_out, target, loss) ==
  LET t == EffectiveTarget(target, loss)
  IN IF n_out = None /\ t # 0
     THEN IF loss # "none"
          THEN get_auto_output_layer_dim(loss, TargetData(st, t).dim)
          ELSE TargetData(st, t).dim
     ELSE n_out

(* out_type=None, as against a dict *)
OutTypeNone == [is_none |-> TRUE]

(* Data constructed from out_type: a dense shape (None, dim) if there is only a dim, the *)
(* batch axis first and the time axis next to it unless given; ok is false *)
(* where neither shape nor dim is given                                    *)
DataFromKwargs(o) ==
  LET Get(k, default) == IF k \in DOMAIN o THEN o[k] ELSE default
      shape == Get("shape", <<None, Get("dim", None)>>)
      dim == Get("dim", IF shape = <<>> THEN None ELSE LastOf(shape))
      batch_dim_axis == Get("batch_dim_axis", 0)
  IN [ok |-> "shape" \in DOMAIN o \/ Truthy(Get("dim", None)),
      data |-> NewData(shape, dim, Get("sparse", FALSE), batch_dim_axis,
                       Get("time_dim_axis",
                           IF batch_dim_axis = None \/ Len(shape) < 2 THEN None
                           ELSE IF batch_dim_axis = 0 THEN 1 ELSE 0),
                       Get("dtype", "float32"))]

(* what get_out_data_from_opts gives back: the descriptor, and the         *)
(* caller's out_type as it is after the call                               *)
OutDataRaised(st, out_type) ==
  [ok |-> FALSE, st |-> st, ret |-> 0, out_type |-> out_type]
OutDataReturned(st, id, out_type) ==
  [ok |-> TRUE, st |-> st, ret |-> id, out_type |-> out_type]

(* the defaults that get_out_data_from_opts puts into its copy o of        *)
(* out_type: name, and from the first source dtype, shape and the axes     *)
OutTypeDefaults(st, o, n, srcs) ==
  The({
    IF srcs = <<>> THEN o2
    ELSE LET s0 == OutputOf(st, srcs[1])
         IN The({ The({
              IF "batch_dim_axis" \in DOMAIN o4 THEN o4
              ELSE SetDefault(SetDefault(o4, "batch_dim_axis", s0.batch_dim_axis),
                              "time_dim_axis", s0.time_dim_axis)
              : o4 \in {SetDefault(o3, "shape",
                                   Append(Prefix(s0.shape),
                                          IF "dim" \in DOMAIN o3 THEN o3["dim"]
                                          ELSE s0.dim))} })
            : o3 \in {SetDefault(o2, "dtype", s0.dtype)} })
    : o2 \in {IF n # None
              THEN SetDefault(SetDefault(o, "name", "output"), "dim", n)
              ELSE SetDefault(o, "name", "output")} })

(* get_out_data_from_opts after the defaults o are set and the Data k is   *)
(* made of them: "assert out_type['dim'] == n_out", and the copy of the     *)
(* first source's size_placeholder                                         *)
OutDataOf(st, out_type, n, srcs, o, k) ==
  IF n # None /\ o["dim"] # n THEN OutDataRaised(st, out_type)
  ELSE IF ~k.ok THEN OutDataRaised(st, out_type)
  ELSE IF srcs # <<>> /\ matches_dim_pattern(OutputOf(st, srcs[1]), k.data)
          /\ OutputOf(st, srcs[1]).size_placeholder = 0
  THEN OutDataRaised(st, out_type)
  ELSE IF srcs # <<>> /\ matches_dim_pattern(OutputOf(st, srcs[1]), k.data)
  THEN LET s0 == OutputOf(st, srcs[1])
           st1 == AllocDict(st, st.dicts[s0.size_placeholder])
           st2 == AllocData(st1, [k.data EXCEPT !.size_placeholder =
                                                  Len(st1.dicts)])
       IN OutDataReturned(st2, Len(st2.data), out_type)
  ELSE LET st2 == AllocData(st, k.data)
       IN OutDataReturned(st2, Len(st2.data), out_type)

(* shape inference that takes the first source's width when nothing says   *)
(* how wide the output is                                                  *)
get_out_data_from_opts_CopiesSourceDim(st, out_type, n_out, target, loss, srcs) ==
  LET n == IF out_type = OutTypeNone
           THEN InferredNOut(st, n_out, target, loss) ELSE n_out
      given == IF out_type = OutTypeNone
               THEN IF Truthy(n) THEN DictSet(<<>>, "dim", n) ELSE <<>>
               ELSE out_type
      o == OutTypeDefaults(st, given, IF Truthy(n) THEN n ELSE None, srcs)
      k == DataFromKwargs(o)
  IN IF ~k.ok THEN OutDataRaised(st, out_type)
     ELSE LET st1 == AllocData(st, k.data)
          IN OutDataReturned(st1, Len(st1.data), out_type)

(* LayerBase.get_out_data_from_opts: "assert n_out" where there is no      *)
(* out_type, "assert out_type['dim'] == n_out" where there is an n_out;    *)
(* the defaults go into a copy of out_type; the descriptor gets a copy of  *)
(* the first source's size_placeholder if the two match in pattern, which  *)
(* raises if that source has none                                          *)
get_out_data_from_opts(st, out_type, n_out, target, loss, srcs) ==
  The({
    IF out_type = OutTypeNone /\ ~Truthy(n) THEN OutDataRaised(st, out_type)
    ELSE The({ The({ OutDataOf(st, out_type, n, srcs, o, k)
                     : k \in {DataFromKwargs(o)} })
               : o \in {OutTypeDefaults(st, IF out_type = OutTypeNone
                                            THEN DictSet(<<>>, "dim", n)
                                            ELSE out_type, n, srcs)} })
    : n \in {IF out_type = OutTypeNone
             THEN InferredNOut(st, n_out, target, loss) ELSE n_out} })

(* LayerBase.get_out_data_from_opts without out_type, as the constructors  *)
(* of the layers over sources call it                                      *)
LayerBase_get_out_data_from_opts(st, n_out, target, loss, srcs) ==
  The({ [ok |-> r.ok, st |-> r.st, ret |-> r.ret]
        : r \in {get_out_data_from_opts(st, OutTypeNone, n_out, target, loss,
                                        srcs)} })

(* LinearLayer.__init__: x = dot(input, W) (W drawn with a seed of the     *)
(* network's generator), output_before_activation over x, and              *)
(* self.output.placeholder = its y.  The result names x, y and the         *)
(* activation as owa.                                                      *)
LinearLayer_init(st, flag, srcs, dropout, activation, n_out, target, loss) ==
  The({
    IF ~t.ok THEN Failed(st)
    ELSE The({
      IF ~r.ok THEN Failed(r.st)
      ELSE
        LET in == r.st.data[r.ret]
            out == r.st.data[t.ret]
        IN IF ~Truthy(in.dim) \/ ~Truthy(out.dim) THEN Failed(r.st)
           ELSE
             LET st1 == AllocOp([r.st EXCEPT !.random = @ + 1],
                                Op("linear", <<>>, 0, in.placeholder,
                                   r.st.ops[in.placeholder].T))
                 x == Len(st1.ops)
                 a == OutputWithActivation_y(st1, x, activation)
             IN IF out.batch_dim_axis # in.batch_dim_axis
                   \/ out.time_dim_axis # in.time_dim_axis
                THEN Failed(a.st)
                ELSE Built([a.st EXCEPT !.data[t.ret].placeholder = a.y],
                           t.ret, r.ret)
      : r \in {concat_sources_with_opt_dropout(t.st, flag, srcs, dropout)} })
    : t \in {LayerBase_get_out_data_from_opts(st, n_out, target, loss, srcs)} })

(* what a layer built with a target or loss keeps: self.target, the Loss   *)
(* object (class "none": no loss) and output_before_activation (x, y and   *)
(* the activation).  Of the Loss object: whether self.output is the        *)
(* layer's output, whether self.target and the seq lens are assigned, the  *)
(* flattened tensors (0: None) and how often init was entered.             *)
NewLoss(cls) ==
  [cls |-> cls, output |-> FALSE, output_seq_lens |-> FALSE, target |-> FALSE,
   target_seq_lens |-> FALSE, output_flat |-> 0,
   output_before_softmax_flat |-> 0, target_flat |-> 0, inits |-> 0]

LayerLoss(target, cls, x, y, activation) ==
  [target |-> target, loss |-> NewLoss(cls),
   owa |-> [x |-> x, y |-> y, act |-> activation]]

(* flatten_with_seq_len_mask(x, seq_lens): a new tensor *)
flatten_with_seq_len_mask(st, x) ==
  AllocOp(st, Op("flatten", <<>>, 0, x, st.ops[x].T))

(* a dict lookup d.size_placeholder[0] succeeds *)
HasSeqLens(st, d) ==
  d.size_placeholder # 0 /\ 0 \in DOMAIN st.dicts[d.size_placeholder]

(* Loss._check_init *)
Loss_check_init(cls, output, target) ==
  /\ ndim_dense(target) = ndim_dense(output)
  /\ get_auto_output_layer_dim(cls, target.dim) = output.dim

(* Loss.init(output, output_with_activation, target) on the loss of the    *)
(* layer i, statement by statement: what is assigned before a statement    *)
(* raises stays assigned.  s carries the store, the Loss object and        *)
(* whether a statement raised.                                             *)
Loss_init(st, i) ==
  LET ll == losses[i]
      output == OutputOf(st, i)
      t == ll.target
      L0 == [ll.loss EXCEPT !.output = TRUE, !.inits = @ + 1]
      s0 == [ok |-> TRUE, st |-> st, loss |-> L0]
      Raise(s) == [s EXCEPT !.ok = FALSE]
      \* self.output_seq_lens = output.size_placeholder[0]
      s1 == IF HasSeqLens(st, output)
            THEN [s0 EXCEPT !.loss.output_seq_lens = TRUE] ELSE Raise(s0)
      \* self.target = target; self.target_seq_lens = target.size_placeholder[0]
      s2 == IF ~s1.ok THEN s1
            ELSE IF t # 0 /\ HasSeqLens(st, TargetData(st, t))
            THEN [s1 EXCEPT !.loss.target = TRUE, !.loss.target_seq_lens = TRUE]
            ELSE Raise([s1 EXCEPT !.loss.target = TRUE])
      \* self.output_flat = None; self.output_before_softmax_flat = None;
      \* assert output_with_activation.y is output.placeholder
      s3 == IF ~s2.ok THEN s2
            ELSE LET c == [s2 EXCEPT !.loss.output_flat = 0,
                                     !.loss.output_before_softmax_flat = 0]
                 IN IF ll.owa.y = output.placeholder THEN c ELSE Raise(c)
      \* if self.output.have_tim_axis(): assert ...; flatten the output
      s4 == IF ~s3.ok \/ ~have_tim_axis(output) THEN s3
            ELSE IF <<output.time_dim_axis, output.batch_dim_axis>>
                      \notin {<<0, 1>>, <<1, 0>>} THEN Raise(s3)
            ELSE IF ll.owa.act = "softmax"
            THEN LET f == flatten_with_seq_len_mask(s3.st, ll.owa.x)
                 IN [s3 EXCEPT !.st = f,
                               !.loss.output_before_softmax_flat = Len(f.ops)]
            ELSE LET f == flatten_with_seq_len_mask(s3.st, output.placeholder)
                 IN [s3 EXCEPT !.st = f, !.loss.output_flat = Len(f.ops)]
      \* self.target_flat = flatten_with_seq_len_mask(target.placeholder, ...)
      s5 == IF ~s4.ok THEN s4
            ELSE LET f == flatten_with_seq_len_mask(
                            s4.st, TargetData(st, t).placeholder)
                 IN [s4 EXCEPT !.st = f, !.loss.target_flat = Len(f.ops)]
      \* self._check_init()
  IN IF ~s5.ok THEN s5
     ELSE IF Loss_check_init(ll.loss.cls, output, TargetData(st, t)) THEN s5
     ELSE Raise(s5)

(* network.get_extern_data(key, mark_data_key_as_used) *)
get_extern_data(st, key, mark_data_key_as_used) ==
  IF mark_data_key_as_used THEN [st EXCEPT !.used = @ \cup {key}] ELSE st

(* LayerBase._static_get_target_value: None (0) without a target, else the *)
(* external input of that name, else the layer of that name; the store     *)
(* after the access                                                        *)
static_get_target_value(st, target, mark_data_key_as_used) ==
  IF target \in 1..NumSources
  THEN get_extern_data(st, target, mark_data_key_as_used)
  ELSE st

(* LayerBase._init_loss: nothing if self.loss.output is self.output; else  *)
(* target = self._get_target_value(), which marks the target as used, and  *)
(* self.loss.init(...)                                                     *)
LayerBase_init_loss(st, i) ==
  IF losses[i].loss.output THEN [ok |-> TRUE, st |-> st, loss |-> losses[i].loss]
  ELSE Loss_init(static_get_target_value(st, losses[i].target, TRUE), i)

(* a tensor that a loss computes *)
LossOp(st, kind, input) ==
  LET st1 == AllocOp(st, Op(kind, <<>>, 0, input, st.ops[input].T))
  IN [ok |-> TRUE, st |-> st1, ret |-> Len(st1.ops)]

LossRaises(st) == [ok |-> FALSE, st |-> st, ret |-> 0]

(* CrossEntropyLoss.get_value on the Loss object L of the layer i: the     *)
(* tensors it reads must be there; two dense tensors of different widths   *)
(* do not combine                                                          *)
CrossEntropyLoss_get_value(st, i, L) ==
  LET output == OutputOf(st, i)
      t == losses[i].target
  IN IF ~L.target \/ t = 0 THEN LossRaises(st)
     ELSE LET target == TargetData(st, t)
              flat == IF L.output_before_softmax_flat # 0
                      THEN L.output_before_softmax_flat ELSE L.output_flat
          IN IF ndim_dense(target) # ndim_dense(output) THEN LossRaises(st)
             ELSE IF flat = 0 \/ L.target_flat = 0 THEN LossRaises(st)
             ELSE IF ~target.sparse /\ target.dim # output.dim
                  THEN LossRaises(st)
             ELSE LossOp(st, "loss", flat)

(* GenericCELoss.get_value *)
GenericCELoss_get_value(st, i, L) ==
  LET output == OutputOf(st, i)
      t == losses[i].target
      owa == losses[i].owa
  IN IF ~L.output_seq_lens THEN LossRaises(st)
     ELSE LET st1 == flatten_with_seq_len_mask(
                       flatten_with_seq_len_mask(
                         flatten_with_seq_len_mask(
                           AllocOp(st, Op("gradients", <<>>, 0, owa.y,
                                          st.ops[owa.y].T)),
                           owa.y),
                         owa.x),
                       owa.y)
          IN IF ~L.target \/ t = 0 THEN LossRaises(st1)
             ELSE IF output.dim # TargetData(st, t).dim THEN LossRaises(st1)
             ELSE IF ~TargetData(st, t).sparse THEN LossRaises(st1)
             ELSE IF L.target_flat = 0 THEN LossRaises(st1)
             ELSE LossOp(st1, "loss", Len(st1.ops))

(* OutputWithActivation.get_logits() or else tf.log(output.placeholder) *)
CtcLogits(st, i) ==
  IF losses[i].owa.act \in {"softmax", "none"}
  THEN [st |-> st, ret |-> losses[i].owa.x]
  ELSE LET p == OutputOf(st, i).placeholder
           st1 == AllocOp(st, Op("log", <<>>, 0, p, st.ops[p].T))
       IN [st |-> st1, ret |-> Len(st1.ops)]

(* CtcLoss.get_value *)
CtcLoss_get_value(st, i, L) ==
  LET output == OutputOf(st, i)
      t == losses[i].target
  IN IF ~L.target \/ t = 0 THEN LossRaises(st)
     ELSE IF ~TargetData(st, t).sparse THEN LossRaises(st)
     ELSE LET g == CtcLogits(st, i)
          IN IF batch_ndim(output) # 3 THEN LossRaises(g.st)
             ELSE IF output.dim # TargetData(st, t).dim + 1 THEN LossRaises(g.st)
             ELSE IF ~L.output_seq_lens \/ ~L.target_seq_lens
                  THEN LossRaises(g.st)
             ELSE LossOp(AllocOp(g.st, Op("sparse_labels", <<>>, 0,
                                          TargetData(st, t).placeholder,
                                          st.ops[TargetData(st, t).placeholder].T)),
                         "loss", g.ret)

(* Loss.get_error *)
Loss_get_error(st, i, L) ==
  LET output == OutputOf(st, i)
      t == losses[i].target
      flat == IF L.output_before_softmax_flat # 0
              THEN L.output_before_softmax_flat ELSE L.output_flat
  IN IF ~L.target \/ t = 0 THEN LossRaises(st)
     ELSE IF ndim_dense(output) # ndim_dense(TargetData(st, t)) THEN LossRaises(st)
     ELSE IF flat = 0 \/ L.target_flat = 0 THEN LossRaises(st)
     ELSE IF ~TargetData(st, t).sparse /\ TargetData(st, t).dim # output.dim
          THEN LossRaises(st)
     ELSE LossOp(st, "error", flat)

(* CtcLoss.get_error *)
CtcLoss_get_error(st, i, L) ==
  LET output == OutputOf(st, i)
      t == losses[i].target
  IN IF ~L.target \/ t = 0 THEN LossRaises(st)
     ELSE IF ~TargetData(st, t).sparse THEN LossRaises(st)
     ELSE LET g == CtcLogits(st, i)
          IN IF batch_ndim(output) # 3 \/ ~L.output_seq_lens \/ ~L.target_seq_lens
             THEN LossRaises(g.st)
             ELSE LossOp(AllocOp(g.st, Op("sparse_labels", <<>>, 0,
                                          TargetData(st, t).placeholder,
                                          st.ops[TargetData(st, t).placeholder].T)),
                         "error", g.ret)

Loss_get_value(st, i, L) ==
  IF L.cls = "ce" THEN CrossEntropyLoss_get_value(st, i, L)
  ELSE IF L.cls = "generic_ce" THEN GenericCELoss_get_value(st, i, L)
  ELSE CtcLoss_get_value(st, i, L)

Loss_get_error_of(st, i, L) ==
  IF L.cls = "ctc" THEN CtcLoss_get_error(st, i, L) ELSE Loss_get_error(st, i, L)

(* LayerBase.get_loss_value (what = "value") and get_error_value (what =   *)
(* "error") of the layer i: None (ret 0) without a loss; else _init_loss,  *)
(* then the loss's get_value or get_error.  executed: that one was         *)
(* entered; ops_at_raise: the number of tensors there were when it raised. *)
LayerBase_get_loss_or_error(st, i, what) ==
  IF i \notin DOMAIN losses \/ losses[i].loss.cls = "none"
  THEN [ok |-> TRUE, st |-> st, ret |-> 0, loss |-> NewLoss("none"),
        executed |-> FALSE, inited |-> FALSE]
  ELSE The({
         IF ~n.ok THEN [ok |-> FALSE, st |-> n.st, ret |-> 0, loss |-> n.loss,
                        executed |-> FALSE, inited |-> TRUE]
         ELSE The({ [ok |-> v.ok, st |-> v.st, ret |-> v.ret, loss |-> n.loss,
                     executed |-> TRUE, inited |-> ~losses[i].loss.output]
                    : v \in {IF what = "value" THEN Loss_get_value(n.st, i, n.loss)
                             ELSE Loss_get_error_of(n.st, i, n.loss)} })
         : n \in {LayerBase_init_loss(st, i)} })

----------------------------------------------------------------------------
(* RecLayer.                                                               *)

(* the output_feedback and attention options: False, True, an options      *)
(* record without entries and one with entries; Python takes the first     *)
(* and the third as false                                                  *)
RecOptions == {"False", "True", "{}", "{opts}"}
OptsTruthy(o) == o \in {"True", "{opts}"}

(* the unit names: "lstm" (or "lstmp") stands for one of the others *)
RecUnits == {"lstm", "basiclstm", "lstmblock", "lstmblockfused", "nativelstm"}

(* the unit that RecLayer.__init__ takes for "lstm" and "lstmp" *)
RecUnit(unit, output_feedback, attention) ==
  IF unit \in {"lstmp", "lstm"}
  THEN IF ~OptsTruthy(output_feedback) /\ ~OptsTruthy(attention)
       THEN "nativelstm" ELSE "lstmblock"
  ELSE unit

(* what get_rnn_cell_class(unit) is an instance of: a step cell, a fused   *)
(* cell over the whole sequence, or the native op over the whole sequence  *)
RnnCellKind(unit) ==
  CASE unit \in {"basiclstm", "lstmblock"} -> "RNNCell"
    [] unit = "lstmblockfused" -> "FusedRNNCell"
    [] unit = "nativelstm" -> "RecSeqCellOp"

(* cells that keep the full width also when there are two *)
RecCells_FullWidth(unit, dim, bidirectional) ==
  IF bidirectional
  THEN <<[cls |-> unit, n_hidden |-> dim], [cls |-> unit, n_hidden |-> dim]>>
  ELSE <<[cls |-> unit, n_hidden |-> dim]>>

(* cell_fw = rnn_cell_class(n_hidden) and, if bidirectional, cell_bw, with *)
(* n_hidden the output dim, halved if bidirectional                        *)
RecCells(unit, dim, bidirectional) ==
  LET n_hidden == IF bidirectional THEN dim \div 2 ELSE dim
  IN IF bidirectional
     THEN <<[cls |-> unit, n_hidden |-> n_hidden],
            [cls |-> unit, n_hidden |-> n_hidden]>>
     ELSE <<[cls |-> unit, n_hidden |-> n_hidden]>>

(* what RecLayer.__init__ gives back: as a constructor, and the cells it   *)
(* has constructed, also when it raised                                    *)
RecFailed(st, cs) ==
  [ok |-> FALSE, st |-> st, ret |-> 0, input_data |-> 0, cells |-> cs]
RecBuilt(st, output, input_data, cs) ==
  [ok |-> TRUE, st |-> st, ret |-> output, input_data |-> input_data,
   cells |-> cs]

(* a tensor computed from the tensor x *)
RecOp(st, kind, x) ==
  LET st1 == AllocOp(st, Op(kind, <<>>, 0, x, st.ops[x].T))
  IN [st |-> st1, ret |-> Len(st1.ops)]

(* directed(x, direction) and tf.reverse_sequence for direction -1 *)
directed(st, x, direction) ==
  IF direction = 0 - 1 THEN RecOp(st, "reverse", x) ELSE [st |-> st, ret |-> x]

(* RecLayer.attention_loop: two assertions on x, then the body ends: the   *)
(* call returns None                                                       *)
attention_loop(st, d) ==
  [ok |-> batch_ndim(d) = 3 /\ Truthy(d.dim) /\ ~d.sparse, ret |-> None]

(* the loop over a step cell or a fused cell (rnn.dynamic_rnn,             *)
(* rnn.bidirectional_dynamic_rnn with the concat of both directions, or    *)
(* the fused cell's call): [ok, st, ret]                                   *)
RecCellLoop(st, d, x, kind, bidirectional, direction) ==
  IF d.sparse THEN [ok |-> FALSE, st |-> st, ret |-> 0]
  ELSE LET x1 == directed(st, x, direction)
       IN IF kind = "RNNCell"
          THEN LET y == IF bidirectional
                        THEN The({ RecOp(b.st, "concat", b.ret)
                                   : b \in {RecOp(x1.st, "bidirectional_dynamic_rnn",
                                                  x1.ret)} })
                        ELSE RecOp(x1.st, "dynamic_rnn", x1.ret)
                   y1 == directed(y.st, y.ret, direction)
               IN [ok |-> TRUE, st |-> y1.st, ret |-> y1.ret]
          ELSE IF bidirectional THEN [ok |-> FALSE, st |-> x1.st, ret |-> 0]
          ELSE LET y == RecOp(x1.st, "fused_cell", x1.ret)
                   y1 == directed(y.st, y.ret, direction)
               IN [ok |-> TRUE, st |-> y1.st, ret |-> y1.ret]

(* the native op over the whole sequence: input projection (or embedding   *)
(* of a sparse input) plus bias, the index mask, the cell                  *)
RecNativeLoop(st, d, x, bidirectional, direction) ==
  IF bidirectional THEN [ok |-> FALSE, st |-> st, ret |-> 0]
  ELSE LET w == RecOp(st,
                      IF d.sparse THEN "embedding_lookup" ELSE "dot", x)
           b == RecOp(w.st, "add", w.ret)
           x1 == directed(b.st, b.ret, direction)
           y == RecOp(x1.st, "native_cell", x1.ret)
           y1 == directed(y.st, y.ret, direction)
       IN [ok |-> TRUE, st |-> y1.st, ret |-> y1.ret]

(* RecLayer.__init__ after the base classes' __init__ made the output      *)
(* descriptor out and the input descriptor in                              *)
RecLayer_body(st, out, in, unit0, bidirectional, direction, output_feedback, attention) ==
  LET unit == RecUnit(unit0, output_feedback, attention)
      kind == RnnCellKind(unit)
      d == st.data[in]
      st1 == [st EXCEPT !.random = @ + 1]
      n_hidden == st.data[out].dim
      cs == RecCells(unit, n_hidden, bidirectional)
      wanted == OptsTruthy(attention) \/ OptsTruthy(output_feedback)
  IN IF direction # None /\ bidirectional THEN RecFailed(st, <<>>)
     ELSE IF bidirectional /\ n_hidden % 2 # 0 THEN RecFailed(st1, <<>>)
     ELSE IF ~is_time_major(d) /\ (d.batch_dim_axis # 0 \/ d.time_dim_axis # 1)
          THEN RecFailed(st1, cs)
     ELSE IF 0 \notin DOMAIN st1.dicts[d.size_placeholder] THEN RecFailed(st1, cs)
     ELSE The({
       IF wanted
       THEN IF kind # "RNNCell" \/ bidirectional THEN RecFailed(x.st, cs)
            ELSE The({
              IF ~a.ok THEN RecFailed(x.st, cs)
              ELSE IF a.ret = None THEN RecFailed(x.st, cs)
              ELSE RecBuilt([x.st EXCEPT
                               !.dicts[x.st.data[out].size_placeholder] =
                                  [k \in DOMAIN @ \cup {0} |->
                                     IF k = 0 THEN a.ret[2] ELSE @[k]],
                               !.data[out].time_dim_axis = 0,
                               !.data[out].batch_dim_axis = 1,
                               !.data[out].placeholder = a.ret[1]],
                            out, in, cs)
              : a \in {attention_loop(x.st, d)} })
       ELSE The({
              IF ~y.ok THEN RecFailed(y.st, cs)
              ELSE RecBuilt([y.st EXCEPT !.data[out].time_dim_axis = 0,
                                         !.data[out].batch_dim_axis = 1,
                                         !.data[out].placeholder = y.ret],
                            out, in, cs)
              : y \in {IF kind \in {"RNNCell", "FusedRNNCell"}
                       THEN RecCellLoop(x.st, d, x.ret, kind, bidirectional,
                                        direction)
                       ELSE RecNativeLoop(x.st, d, x.ret, bidirectional,
                                          direction)} })
       : x \in {IF is_time_major(d) THEN [st |-> st1, ret |-> d.placeholder]
                ELSE RecOp(st1, "swapaxes", d.placeholder)} })

(* RecLayer.__init__ *)
RecLayer_init(st, flag, srcs, dropout, n_out, unit, bidirectional, direction, output_feedback, attention) ==
  The({
    IF ~t.ok THEN RecFailed(st, <<>>)
    ELSE The({
      IF ~r.ok THEN RecFailed(r.st, <<>>)
      ELSE RecLayer_body(r.st, t.ret, r.ret, unit, bidirectional, direction,
                         output_feedback, attention)
      : r \in {concat_sources_with_opt_dropout(t.st, flag, srcs, dropout)} })
    : t \in {LayerBase_get_out_data_from_opts(st, n_out, 0, "none", srcs)} })

----------------------------------------------------------------------------
(* ConvLayer.                                                              *)

(* Data.get_dynamic_axes(): the axes of shape without a static extent,     *)
(* counted without the batch axis, in their order                          *)
get_dynamic_axes(d) ==
  SelectSeq([i \in 1..Len(d.shape) |-> i - 1], LAMBDA a : d.shape[a + 1] = None)

(* get_non_dynamic_axes() in its order *)
StaticAxesSeq(d) ==
  SelectSeq([i \in 1..Len(d.shape) |-> i - 1], LAMBDA a : d.shape[a + 1] # None)

(* the extent of the input's tensor on the axis a (without batch): the     *)
(* static one, or the padded length of the batch, which on a further       *)
(* dynamic axis is longer as that axis's lengths are                       *)
InputExtent(st, d, a) ==
  IF d.shape[a + 1] # None THEN d.shape[a + 1]
  ELSE st.ops[d.placeholder].T + a

(* ConvLayer.get_out_data_from_opts: the shape is [None] * len(filter_size)*)
(* + [n_out] with the batch axis first; the first source gives the dtype,  *)
(* and a copy of its size_placeholder if the two match in pattern          *)
ConvLayer_get_out_data_from_opts(st, n_out, filter_size, srcs) ==
  IF ~Truthy(n_out) \/ srcs = <<>> THEN [ok |-> FALSE, st |-> st, ret |-> 0]
  ELSE LET s0 == OutputOf(st, srcs[1])
           d == NewData([i \in 1..Len(filter_size) |-> None] \o <<n_out>>,
                        n_out, FALSE, 0, 1, s0.dtype)
       IN IF matches_dim_pattern(s0, d)
          THEN LET st1 == AllocDict(st, st.dicts[s0.size_placeholder])
                   st2 == AllocData(st1, [d EXCEPT !.size_placeholder =
                                                     Len(st1.dicts)])
               IN [ok |-> TRUE, st |-> st2, ret |-> Len(st2.data)]
          ELSE LET st2 == AllocData(st, d)
               IN [ok |-> TRUE, st |-> st2, ret |-> Len(st2.data)]

(* that shape without the axis input_add_feature_dim adds *)
ConvXShape_NoAddedAxis(d, input_add_feature_dim, input_split_feature_dim) ==
  IF Truthy(input_split_feature_dim)
  THEN Prefix(d.shape) \o <<d.dim \div input_split_feature_dim,
                            input_split_feature_dim>>
  ELSE d.shape

(* the shape of x without the batch axis after input_split_feature_dim     *)
(* (the last axis becomes dim // split and split) and                      *)
(* input_add_feature_dim (an axis of extent 1 at the very end)             *)
ConvXShape(d, input_add_feature_dim, input_split_feature_dim) ==
  LET s1 == IF Truthy(input_split_feature_dim)
            THEN Prefix(d.shape) \o <<d.dim \div input_split_feature_dim,
                                      input_split_feature_dim>>
            ELSE d.shape
  IN IF input_add_feature_dim THEN Append(s1, 1) ELSE s1

(* the axes ConvLayer convolves over and the extent of x on each, after    *)
(* input_split_feature_dim, input_add_feature_dim and input_expand_dims:   *)
(* the input's dynamic axes, the static axes but the last one, and the     *)
(* expanded axes of extent 1; ok is false where an assertion on the axes   *)
(* fails                                                                   *)
ConvAxes(st, d, filter_size, input_expand_dims, input_add_feature_dim, input_split_feature_dim) ==
  LET dyn0 == get_dynamic_axes(d)
      static0 == StaticAxesSeq(d)
      xshape == ConvXShape(d, input_add_feature_dim, input_split_feature_dim)
      static1 == static0 \o [k \in 1..(Len(xshape) - Len(d.shape)) |->
                               Len(d.shape) + k - 1]
      dyn1 == IF Len(static1) > 1
              THEN dyn0 \o SubSeq(static1, 1, Len(static1) - 1) ELSE dyn0
      dyn2 == dyn1 \o [k \in 1..input_expand_dims |-> Len(dyn1) + k - 1]
  IN [ok |-> /\ dyn0 \o static0 = [i \in 1..Len(d.shape) |-> i - 1]
             /\ Truthy(input_split_feature_dim)
                  => d.dim % input_split_feature_dim = 0
             /\ Len(static1) >= 1
             /\ dyn2 = [i \in 1..Len(filter_size) |-> i - 1],
      dyn_axes |-> dyn2,
      extent |-> [i \in 1..Len(dyn2) |->
                    IF i > Len(dyn1) THEN 1
                    ELSE IF xshape[dyn1[i] + 1] # None THEN xshape[dyn1[i] + 1]
                    ELSE InputExtent(st, d, dyn1[i])],
      static |-> [i \in 1..Len(dyn2) |->
                    i > Len(dyn1) \/ xshape[dyn1[i] + 1] # None]]

(* the extent of tf.nn.convolution's result on an axis of extent n, with   *)
(* stride 1 and dilation 1                                                 *)
ConvExtent(n, f, padding) == IF padding = "VALID" THEN n - f + 1 ELSE n

(* self.output.size_placeholder: for every conv axis the input's entry if  *)
(* it has one, else the extent of y, tf.shape(y)[i + 1]; with VALID        *)
(* padding every entry then becomes s - filter_size[i] + 1                 *)
ConvSizes(sizes, axes, filter_size, padding) ==
  [i \in Range(axes.dyn_axes) |->
     LET s == IF i \in DOMAIN sizes THEN sizes[i]
              ELSE Scalar(ConvExtent(axes.extent[i + 1], filter_size[i + 1],
                                     padding))
     IN IF padding = "VALID"
        THEN [k \in DOMAIN s |-> s[k] - filter_size[i + 1] + 1]
        ELSE s]

(* x after get_placeholder_as_batch_major, the reshape of                  *)
(* input_split_feature_dim, input_add_feature_dim and input_expand_dims    *)
ConvInput(st, d, input_expand_dims, input_add_feature_dim, input_split_feature_dim) ==
  LET x0 == IF d.batch_dim_axis = 0 THEN [st |-> st, ret |-> d.placeholder]
            ELSE RecOp(st, "transpose", d.placeholder)
      xs == IF Truthy(input_split_feature_dim)
            THEN RecOp(x0.st, "reshape", x0.ret) ELSE x0
      x1 == IF input_add_feature_dim THEN RecOp(xs.st, "expand_dims", xs.ret)
            ELSE xs
  IN IF input_expand_dims = 0 THEN x1 ELSE RecOp(x1.st, "expand_dims", x1.ret)

(* the filter: self.add_param(tf.Variable("W", xavier_initializer(seed =   *)
(* self.network.random.randint(2**31)))); the parameter is there once its  *)
(* seed is drawn                                                           *)
ConvFilter(st) == [st EXCEPT !.random = @ + 1]

(* ConvLayer.__init__, with stride 1, no dilation, no bias and no          *)
(* activation, and input_expand_dims 0 or 1; tf.nn.convolution raises for  *)
(* a static extent that the filter does not fit in                         *)
ConvLayer_init(st, flag, srcs, dropout, n_out, filter_size, padding, input_expand_dims, input_add_feature_dim, input_split_feature_dim) ==
  The({
    IF ~t.ok THEN Failed(st)
    ELSE The({
      IF ~r.ok THEN Failed(r.st)
      ELSE IF r.st.data[r.ret].sparse THEN Failed(r.st)
      ELSE
        LET d == r.st.data[r.ret]
            sizes == r.st.dicts[d.size_placeholder]
            axes == ConvAxes(r.st, d, filter_size, input_expand_dims,
                             input_add_feature_dim, input_split_feature_dim)
        IN IF ~axes.ok THEN Failed(r.st)
           ELSE The({
             IF \E i \in DOMAIN filter_size :
                  /\ axes.static[i]
                  /\ ConvExtent(axes.extent[i], filter_size[i], padding) <= 0
             THEN Failed(ConvFilter(x.st))
             ELSE
               LET st1 == AllocOp(ConvFilter(x.st),
                                  Op("conv", <<>>, 0, x.ret,
                                     ConvExtent(axes.extent[1], filter_size[1],
                                                padding)))
                   st2 == AllocDict(st1, ConvSizes(sizes, axes, filter_size,
                                                   padding))
               IN Built([st2 EXCEPT !.data[t.ret].placeholder = Len(st1.ops),
                                    !.data[t.ret].size_placeholder = Len(st2.dicts)],
                        t.ret, r.ret)
             : x \in {ConvInput(r.st, d, input_expand_dims,
                                input_add_feature_dim,
                                input_split_feature_dim)} })
      : r \in {concat_sources_with_opt_dropout(t.st, flag, srcs, dropout)} })
    : t \in {ConvLayer_get_out_data_from_opts(st, n_out, filter_size, srcs)} })


----------------------------------------------------------------------------
(* The registries of layer classes and loss classes.                       *)

(* the classes in globals() that are subclasses of LayerBase, each with    *)
(* its layer_class; "" is None, which LayerBase has and _ConcatInputLayer  *)
(* inherits                                                                *)
ModuleLayerClasses ==
  << [name |-> "LayerBase", layer_class |-> ""],
     [name |-> "SourceLayer", layer_class |-> "source"],
     [name |-> "_ConcatInputLayer", layer_class |-> ""],
     [name |-> "CopyLayer", layer_class |-> "copy"],
     [name |-> "ActivationLayer", layer_class |-> "activation"],
     [name |-> "BatchNormLayer", layer_class |-> "batch_norm"],
     [name |-> "SliceLayer", layer_class |-> "slice"],
     [name |-> "LinearLayer", layer_class |-> "linear"],
     [name |-> "SoftmaxLayer", layer_class |-> "softmax"],
     [name |-> "ConvLayer", layer_class |-> "conv"],
     [name |-> "PoolLayer", layer_class |-> "pool"],
     [name |-> "ReduceLayer", layer_class |-> "reduce"],
     [name |-> "GetLastHiddenStateLayer", layer_class |-> "get_last_hidden_state"],
     [name |-> "RnnCellLayer", layer_class |-> "rnn_cell"],
     [name |-> "RecLayer", layer_class |-> "rec"],
     [name |-> "FsaLayer", layer_class |-> "fsa"],
     [name |-> "CombineLayer", layer_class |-> "combine"],
     [name |-> "SubnetworkLayer", layer_class |-> "subnetwork"],
     [name |-> "FramewiseStatisticsLayer", layer_class |-> "framewise_statistics"] >>

(* the subclasses of Loss with their class_name; "" is None *)
ModuleLossClasses ==
  << [name |-> "Loss", layer_class |-> ""],
     [name |-> "CrossEntropyLoss", layer_class |-> "ce"],
     [name |-> "GenericCELoss", layer_class |-> "generic_ce"],
     [name |-> "CtcLoss", layer_class |-> "ctc"] >>

(* "for v in globals().values(): if ... and v.layer_class: assert          *)
(* v.layer_class not in d; d[v.layer_class] = v": what is written before   *)
(* an assert fails stays written                                           *)
RECURSIVE RegisterClasses(_, _)
RegisterClasses(d, cs) ==
  IF cs = <<>> THEN [ok |-> TRUE, dict |-> d]
  ELSE IF Head(cs).layer_class = "" THEN RegisterClasses(d, Tail(cs))
  ELSE IF Head(cs).layer_class \in DOMAIN d THEN [ok |-> FALSE, dict |-> d]
  ELSE RegisterClasses(DictSet(d, Head(cs).layer_class, Head(cs).name), Tail(cs))

(* _init_layer_class_dict: the classes, then the alias "forward" *)
init_layer_class_dict(d) ==
  The({ IF ~r.ok THEN r
        ELSE IF "forward" \in DOMAIN r.dict THEN [ok |-> FALSE, dict |-> r.dict]
        ELSE [ok |-> TRUE, dict |-> DictSet(r.dict, "forward", "LinearLayer")]
        : r \in {RegisterClasses(d, ModuleLayerClasses)} })

(* what a lookup gives back: the dict after it, and the class or the       *)
(* exception with its argument                                             *)
LookupRaised(d, exc, arg) ==
  [ok |-> FALSE, dict |-> d, ret |-> "", exc |-> exc, arg |-> arg]
LookupReturned(d, cls) ==
  [ok |-> TRUE, dict |-> d, ret |-> cls, exc |-> "", arg |-> ""]

(* a lookup that registers a name it does not find *)
get_layer_class_Registering(d, name) ==
  The({ IF ~r.ok THEN LookupRaised(r.dict, "AssertionError", "")
        ELSE IF name \notin DOMAIN r.dict
        THEN LookupRaised(DictSet(r.dict, name, ""), "Exception", name)
        ELSE LookupReturned(r.dict, r.dict[name])
        : r \in {IF DOMAIN d = {} THEN init_layer_class_dict(d)
                 ELSE [ok |-> TRUE, dict |-> d]} })

(* get_layer_class(name) *)
get_layer_class(d, name) ==
  The({ IF ~r.ok THEN LookupRaised(r.dict, "AssertionError", "")
        ELSE IF name \notin DOMAIN r.dict
        THEN LookupRaised(r.dict, "Exception", name)
        ELSE LookupReturned(r.dict, r.dict[name])
        : r \in {IF DOMAIN d = {} THEN init_layer_class_dict(d)
                 ELSE [ok |-> TRUE, dict |-> d]} })

(* get_loss_class(loss): _LossClassDict[loss] raises KeyError(loss) *)
get_loss_class(d, loss) ==
  The({ IF ~r.ok THEN LookupRaised(r.dict, "AssertionError", "")
        ELSE IF loss \notin DOMAIN r.dict
        THEN LookupRaised(r.dict, "KeyError", loss)
        ELSE LookupReturned(r.dict, r.dict[loss])
        : r \in {IF DOMAIN d = {} THEN RegisterClasses(d, ModuleLossClasses)
                 ELSE [ok |-> TRUE, dict |-> d]} })


----------------------------------------------------------------------------
(* SourceLayer and FramewiseStatisticsLayer: layers that read external     *)
(* inputs.                                                                 *)

(* network.extern_data.default_input: the first of the external inputs *)
DefaultInput == 1

(* SourceLayer.get_out_data_from_opts(network, data_key): the external     *)
(* input itself, not marked as used                                        *)
SourceLayer_get_out_data_from_opts(st, data_key) ==
  LET key == IF data_key = None THEN DefaultInput ELSE data_key
  IN Returned(get_extern_data(st, key, FALSE), key)

(* SourceLayer.__init__: "assert not sources"; the external input is       *)
(* marked as used and becomes self.output                                  *)
SourceLayer_init(st, data_key, srcs) ==
  LET key == IF data_key = None THEN DefaultInput ELSE data_key
  IN IF srcs # <<>> THEN Failed(st)
     ELSE Built(get_extern_data(st, key, TRUE), key, 0)

(* self.target of the layer l: 0 is None *)
TargetOf(l) == IF l \in DOMAIN losses THEN losses[l].target ELSE 0

(* FramewiseStatisticsLayer.__init__ with the output template of n_out=1:  *)
(* a dummy constant as output, then target = source._get_target_value()    *)
(* of the first source, which marks the target as used; the asserts on the *)
(* target and on the source's softmax; the flattened tensors and the       *)
(* statistics over them                                                    *)
FramewiseStatisticsLayer_init(st, srcs) ==
  The({
    IF ~t.ok THEN Failed(st)
    ELSE
      LET st1 == AllocOp(t.st, Op("constant", <<>>, 0, 0, 0))
          st2 == [st1 EXCEPT !.data[t.ret].placeholder = Len(st1.ops)]
      IN IF srcs = <<>> THEN Failed(st2)
         ELSE
           LET source == srcs[1]
               output == OutputOf(st2, source)
               target == TargetOf(source)
               st3 == static_get_target_value(st2, target, TRUE)
           IN IF target = 0 THEN Failed(st3)
              ELSE IF ~TargetData(st3, target).sparse THEN Failed(st3)
              ELSE IF losses[source].owa.act # "softmax" THEN Failed(st3)
              ELSE IF ~HasSeqLens(st3, output) THEN Failed(st3)
              ELSE
                LET f1 == flatten_with_seq_len_mask(st3, losses[source].owa.x)
                IN IF ~HasSeqLens(f1, TargetData(f1, target)) THEN Failed(f1)
                   ELSE
                     LET f2 == flatten_with_seq_len_mask(
                                 f1, TargetData(f1, target).placeholder)
                         f3 == flatten_with_seq_len_mask(f2, output.placeholder)
                         st4 == AllocOp(f3, Op("stats", <<>>, 0, Len(f1.ops), 0))
                     IN Built(st4, t.ret, 0)
    : t \in {get_out_data_from_opts(st, OutTypeNone, 1, 0, "none", srcs)} })


----------------------------------------------------------------------------
(* The last hidden state of a layer.                                       *)

(* a last hidden state: a tensor of ndims axes and width dim, or a tuple   *)
(* of tensors (the (c, h) state of an LSTM step cell or fused cell); parts *)
(* are the recurrent layers whose final states it is made of, in order     *)
HiddenState(is_tensor, ndims, dim, parts) ==
  [is_tensor |-> is_tensor, ndims |-> ndims, dim |-> dim, parts |-> parts]

(* get_last_hidden_state() returning None *)
NoHiddenState == HiddenState(FALSE, 0, 0, <<>>)

(* what a call of get_last_hidden_state gives: whether it returned, the    *)
(* graph after it, and the state h                                         *)
HiddenRaised(st) == [ok |-> FALSE, st |-> st, h |-> NoHiddenState]
HiddenReturned(st, h) == [ok |-> TRUE, st |-> st, h |-> h]

(* self._last_hidden_state of the RecLayer l after __init__: None on the   *)
(* attention / output_feedback path; tf.concat(final_states, axis=1) of    *)
(* the two state tuples of bidirectional step cells, which is a tensor of  *)
(* three axes; the final state tuple of a step cell or a fused cell; the   *)
(* final state (batch, n_hidden) of the native op                          *)
RecLayer_last_hidden_state(l, unit0, n_hidden, bidirectional, output_feedback, attention) ==
  LET kind == RnnCellKind(RecUnit(unit0, output_feedback, attention))
  IN IF OptsTruthy(attention) \/ OptsTruthy(output_feedback) THEN NoHiddenState
     ELSE IF kind = "RNNCell"
     THEN IF bidirectional THEN HiddenState(TRUE, 3, n_hidden, <<l>>)
          ELSE HiddenState(FALSE, 0, n_hidden, <<l>>)
     ELSE IF kind = "FusedRNNCell" THEN HiddenState(FALSE, 0, n_hidden, <<l>>)
     ELSE HiddenState(TRUE, 2, n_hidden, <<l>>)

(* the parts of the states hs, one after the other *)
RECURSIVE PartsOf(_)
PartsOf(hs) == IF hs = <<>> THEN <<>> ELSE Head(hs).parts \o PartsOf(Tail(hs))

(* the widths of the states hs *)
DimsOf(hs) == [k \in DOMAIN hs |-> hs[k].dim]

RECURSIVE get_last_hidden_state(_, _, _, _)
RECURSIVE SourcesHiddenStates(_, _, _, _, _)

(* s.get_last_hidden_state() for s in srcs, in order: as the generic       *)
(* fallback asks (a state that is given must have get_shape().ndims == 2,  *)
(* None is left out) or as GetLastHiddenStateLayer asks (every answer is   *)
(* kept): [ok, st, hs]                                                     *)
SourcesHiddenStates(st, lay, own, srcs, fallback) ==
  IF srcs = <<>> THEN [ok |-> TRUE, st |-> st, hs |-> <<>>]
  ELSE The({
    IF ~r.ok THEN [ok |-> FALSE, st |-> r.st, hs |-> <<>>]
    ELSE IF fallback /\ r.h # NoHiddenState /\ ~(r.h.is_tensor /\ r.h.ndims = 2)
    THEN [ok |-> FALSE, st |-> r.st, hs |-> <<>>]
    ELSE The({ IF fallback /\ r.h = NoHiddenState THEN t
               ELSE [t EXCEPT !.hs = <<r.h>> \o @]
               : t \in {SourcesHiddenStates(r.st, lay, own, Tail(srcs), fallback)} })
    : r \in {get_last_hidden_state(st, lay, own, Head(srcs))} })

(* get_last_hidden_state() of the layer i: of a RecLayer its               *)
(* _last_hidden_state, asserted not None; of a GetLastHiddenStateLayer its *)
(* output; of any other layer the generic fallback over its sources: None, *)
(* the single state found, or tf.concat of the states found on axis 1      *)
get_last_hidden_state(st, lay, own, i) ==
  IF i \in DOMAIN own
  THEN IF own[i] = NoHiddenState THEN HiddenRaised(st)
       ELSE HiddenReturned(st, own[i])
  ELSE The({
    IF ~s.ok THEN HiddenRaised(s.st)
    ELSE IF s.hs = <<>> THEN HiddenReturned(s.st, NoHiddenState)
    ELSE IF Len(s.hs) = 1 THEN HiddenReturned(s.st, s.hs[1])
    ELSE HiddenReturned(AllocOp(s.st, Op("concat_hidden_states", <<>>, 0, 0, 0)),
                        HiddenState(TRUE, 2, SumSeq(DimsOf(s.hs)), PartsOf(s.hs)))
    : s \in {SourcesHiddenStates(st, lay, own, lay[i].sources, TRUE)} })

(* the number of axes of h as a tensor: a tuple of tensors is packed into  *)
(* a tensor with one more axis                                             *)
HiddenNDims(h) == IF h.is_tensor THEN h.ndims ELSE 3

(* tf.concat(sources, axis=1) or tf.add_n(sources) of the states hs, which *)
(* must agree in the number of axes, and for add_n in the width; any other *)
(* combine mode raises                                                     *)
CombineHiddenStates(st, hs, combine) ==
  IF combine \notin {"concat", "add"} THEN HiddenRaised(st)
  ELSE IF \E k \in DOMAIN hs : HiddenNDims(hs[k]) # HiddenNDims(hs[1])
  THEN HiddenRaised(st)
  ELSE IF combine = "add" /\ \E k \in DOMAIN hs : hs[k].dim # hs[1].dim
  THEN HiddenRaised(st)
  ELSE HiddenReturned(
         AllocOp(st, Op(IF combine = "concat" THEN "concat_hidden_states"
                        ELSE "add_hidden_states", <<>>, 0, 0, 0)),
         HiddenState(TRUE, HiddenNDims(hs[1]),
                     IF combine = "concat" THEN SumSeq(DimsOf(hs)) ELSE hs[1].dim,
                     PartsOf(hs)))

(* GetLastHiddenStateLayer.get_out_data_from_opts and __init__: the output *)
(* template (batch, n_out); "assert len(self.sources) > 0"; the states of  *)
(* all sources, none of which may be None; the single one or the combined  *)
(* one; check_input_ndim(h, 2) and check_input_dim(h, 1, n_out); then h is *)
(* the output: [ok, st, ret, input_data, h]                                *)
GetLastHiddenStateLayer_init(st, lay, own, srcs, n_out, combine) ==
  LET out_type == DictSet(DictSet(DictSet(DictSet(<<>>, "shape", <<n_out>>),
                                          "dim", n_out),
                                  "batch_dim_axis", 0),
                          "time_dim_axis", None)
      Fail(s) == [ok |-> FALSE, st |-> s, ret |-> 0, input_data |-> 0,
                  h |-> NoHiddenState]
  IN The({
    IF ~t.ok \/ srcs = <<>> THEN Fail(t.st)
    ELSE The({
      IF ~s.ok THEN Fail(s.st)
      ELSE IF \E k \in DOMAIN s.hs : s.hs[k] = NoHiddenState THEN Fail(s.st)
      ELSE The({
        IF ~c.ok THEN Fail(c.st)
        ELSE IF ~(c.h.is_tensor /\ c.h.ndims = 2) THEN Fail(c.st)
        ELSE IF c.h.dim # n_out THEN Fail(c.st)
        ELSE [ok |-> TRUE,
              st |-> IF Len(s.hs) = 1 THEN c.st
                     ELSE [c.st EXCEPT !.data[t.ret].placeholder = Len(c.st.ops)],
              ret |-> t.ret, input_data |-> 0, h |-> c.h]
        : c \in {IF Len(s.hs) = 1 THEN HiddenReturned(s.st, s.hs[1])
                 ELSE CombineHiddenStates(s.st, s.hs, combine)} })
      : s \in {SourcesHiddenStates(t.st, lay, own, srcs, FALSE)} })
    : t \in {get_out_data_from_opts(st, out_type, None, 0, "none", srcs)} })


(* the layers' own last hidden states with the one of the new layer l *)
WithHiddenState(l, h) ==
  [j \in DOMAIN last_hidden_state \cup {l} |->
     IF j = l THEN h ELSE last_hidden_state[j]]


----------------------------------------------------------------------------
(* PoolLayer.                                                              *)

(* strides as PoolLayer.__init__ takes them: pool_size if None, an int     *)
(* for every axis                                                          *)
PoolStrides(strides, pool_size) ==
  IF strides = None THEN pool_size
  ELSE [i \in DOMAIN pool_size |-> strides]

(* the extent of tf.nn.pool's result on an axis of extent n for the window *)
(* p and the stride s                                                      *)
PoolExtent(n, p, s, padding) ==
  IF padding = "VALID" THEN (IF n >= p THEN (n - p) \div s + 1 ELSE 0)
  ELSE (n + s - 1) \div s

(* PoolLayer.get_out_data_from_opts: the shape is (None,) * len(pool_size) *)
(* + (dim,) of the concatenated sources, dense, with the batch axis first  *)
PoolLayer_get_out_data_from_opts(st, pool_size, srcs) ==
  IF ~ConcatTemplateOk(st, srcs) THEN [ok |-> FALSE, st |-> st, ret |-> 0]
  ELSE LET tmpl == get_concat_sources_data_template(st, srcs)
           st1 == AllocData(st, NewData([i \in DOMAIN pool_size |-> None]
                                          \o <<tmpl.dim>>,
                                        tmpl.dim, FALSE, 0, 1, tmpl.dtype))
       IN [ok |-> TRUE, st |-> st1, ret |-> Len(st1.data)]

(* self.output.size_placeholder: for every pooled axis the input's entry   *)
(* if it has one, else the extent of y, tf.shape(y)[i + 1]; with VALID     *)
(* padding every entry then becomes s - pool_size[i] + 1                   *)
PoolSizes(st, d, pool_size, padding, strides) ==
  LET sizes == st.dicts[d.size_placeholder]
  IN [i \in 0..(Len(pool_size) - 1) |->
        LET s == IF i \in DOMAIN sizes THEN sizes[i]
                 ELSE Scalar(PoolExtent(InputExtent(st, d, i), pool_size[i + 1],
                                        strides[i + 1], padding))
        IN IF padding = "VALID"
           THEN [k \in DOMAIN s |-> s[k] - pool_size[i + 1] + 1]
           ELSE s]

(* PoolLayer.__init__ with dilation_rate 1: the asserts on mode and        *)
(* padding, the default strides, the base classes' __init__, x as          *)
(* batch-major, tf.nn.pool (which raises if x has not len(pool_size) + 2   *)
(* axes or a static extent is smaller than the window), the recorded       *)
(* lengths                                                                 *)
PoolLayer_init(st, flag, srcs, dropout, mode, pool_size, padding, strides0) ==
  IF mode \notin {"MAX", "AVG"} \/ padding \notin {"VALID", "SAME"} THEN Failed(st)
  ELSE The({
    IF ~t.ok THEN Failed(st)
    ELSE The({
      IF ~r.ok THEN Failed(r.st)
      ELSE
        LET d == r.st.data[r.ret]
            strides == PoolStrides(strides0, pool_size)
            x == IF d.batch_dim_axis = 0 THEN [st |-> r.st, ret |-> d.placeholder]
                 ELSE RecOp(r.st, "transpose", d.placeholder)
        IN IF Len(d.shape) - 1 # Len(pool_size) THEN Failed(x.st)
           ELSE IF \E i \in DOMAIN pool_size :
                     /\ d.shape[i] # None
                     /\ padding = "VALID" /\ d.shape[i] < pool_size[i]
           THEN Failed(x.st)
           ELSE
             LET st1 == AllocOp(x.st,
                          Op("pool", <<>>, 0, x.ret,
                             PoolExtent(InputExtent(x.st, d, 0), pool_size[1],
                                        strides[1], padding)))
                 st2 == AllocDict(st1, PoolSizes(st1, d, pool_size, padding,
                                                 strides))
             IN Built([st2 EXCEPT !.data[t.ret].placeholder = Len(st1.ops),
                                  !.data[t.ret].size_placeholder = Len(st2.dicts)],
                      t.ret, r.ret)
      : r \in {concat_sources_with_opt_dropout(t.st, flag, srcs, dropout)} })
    : t \in {PoolLayer_get_out_data_from_opts(st, pool_size, srcs)} })


----------------------------------------------------------------------------
(* GeneratingDataset.                                                      *)

(* num_seqs = float("inf"), the default: above every index *)
Infinity == 1000000

(* a DatasetSeq as generate_seq of a subclass returns it *)
DatasetSeq(seq_idx, num_frames) == [seq_idx |-> seq_idx, num_frames |-> num_frames]

(* GeneratingDataset.__init__: only num_seqs is set; the attributes of an  *)
(* epoch are there after the first init_seq_order. generate_calls is the   *)
(* record of the generate_seq calls of the epoch, in order.                *)
NewDataset(num_seqs) ==
  [epoch |-> 0, num_seqs |-> num_seqs, num_timesteps |-> 0,
   reached_final_seq |-> FALSE, expected_load_seq_start |-> 0,
   added_data |-> <<>>, generate_calls |-> <<>>]

(* init_seq_order: a new epoch *)
init_seq_order(ds) ==
  [ds EXCEPT !.epoch = @ + 1, !.num_timesteps = 0,
             !.reached_final_seq = FALSE, !.expected_load_seq_start = 0,
             !.added_data = <<>>, !.generate_calls = <<>>]

(* _cleanup_old_seqs: the leading sequences below seq_idx_end are deleted *)
RECURSIVE cleanup_old_seqs(_, _)
cleanup_old_seqs(added_data, seq_idx_end) ==
  IF added_data = <<>> \/ Head(added_data).seq_idx >= seq_idx_end THEN added_data
  ELSE cleanup_old_seqs(Tail(added_data), seq_idx_end)

(* a start that stays as it is given *)
LoadStart_AsGiven(added_data, start) == start

(* "if self.added_data: start = max(self.added_data[-1].seq_idx + 1,       *)
(* start)"                                                                 *)
LoadStart(added_data, start) ==
  IF added_data # <<>> THEN Max(LastOf(added_data).seq_idx + 1, start) ELSE start

(* an end that is not cut *)
LoadEnd_Uncut(num_seqs, end) == end

(* "if end > self.num_seqs: end = self.num_seqs" *)
LoadEnd(num_seqs, end) == IF end > num_seqs THEN num_seqs ELSE end

(* _load_seqs up to "self.expected_load_seq_start = start": the old       *)
(* sequences are cleaned up if start has advanced                          *)
LoadCleanup(ds, start) ==
  IF start > ds.expected_load_seq_start
  THEN [ds EXCEPT !.added_data = cleanup_old_seqs(@, start),
                  !.expected_load_seq_start = start]
  ELSE ds

(* range(start, end) of the list comprehension in _load_seqs: start is     *)
(* moved behind the last sequence that is there, end is cut at num_seqs    *)
GenerateRange(ds, start, end) ==
  LoadStart(LoadCleanup(ds, start).added_data, start)
    .. (LoadEnd(ds.num_seqs, end) - 1)

(* _load_seqs(start, end) after its assert: the clean-up; reaching         *)
(* num_seqs with end sets reached_final_seq; generate_seq for every index  *)
(* of range(start, end), with the num_frames that frames gives;            *)
(* _num_timesteps and added_data take the new sequences                    *)
load_seqs(ds, start, end, frames) ==
  LET rng == GenerateRange(ds, start, end)
      first == LoadStart(LoadCleanup(ds, start).added_data, start)
      seqs == [k \in 1..Cardinality(rng) |->
                 DatasetSeq(first + k - 1, frames[first + k - 1])]
  IN [LoadCleanup(ds, start) EXCEPT
        !.reached_final_seq = @ \/ LoadEnd(ds.num_seqs, end) >= ds.num_seqs,
        !.num_timesteps = @ + SumSeq([k \in DOMAIN seqs |-> seqs[k].num_frames]),
        !.added_data = @ \o seqs,
        !.generate_calls = @ \o seqs]


(* Task12AXDataset: the classes of the 12AX task; a sequence holds the     *)
(* 0-based indices of its symbols in them                                  *)
input_classes == <<"1", "2", "3", "A", "B", "C", "X", "Y", "Z">>
output_classes == <<"L", "R">>

(* classes.index(c) *)
ClassIndex(classes, c) == (CHOOSE k \in DOMAIN classes : classes[k] = c) - 1

(* the strings of make_output_seq are sequences of their characters, so    *)
(* that + is \o and "" is <<>>                                             *)
NewOutputState == [outer_state |-> <<>>, inner_state |-> <<>>, output_seq_str |-> <<>>]

(* the output of one iteration *)
OutputClassOf(s, c) ==
  IF /\ c \in {"X", "Y"}
     /\ s.outer_state \o s.inner_state \o <<c>>
          \in {<<"1", "A", "X">>, <<"2", "B", "Y">>}
  THEN "R" ELSE "L"

(* the iteration without "inner_state = ''" *)
make_output_seq_step_KeepsInner(s, c) ==
  [outer_state |-> IF c \in {"1", "2"} THEN <<c>> ELSE s.outer_state,
   inner_state |-> IF c \in {"A", "B"} THEN <<c>> ELSE s.inner_state,
   output_seq_str |-> s.output_seq_str \o <<OutputClassOf(s, c)>>]

(* one iteration of the loop of make_output_seq on the symbol c: 1 and 2   *)
(* set outer_state, A and B set inner_state, X and Y give "R" after 1A and *)
(* 2B and clear inner_state; 3, C and Z fall through                       *)
make_output_seq_step(s, c) ==
  [outer_state |-> IF c \in {"1", "2"} THEN <<c>> ELSE s.outer_state,
   inner_state |-> IF c \in {"1", "2"} THEN s.inner_state
                   ELSE IF c \in {"A", "B"} THEN <<c>>
                   ELSE IF c \in {"X", "Y"} THEN <<>>
                   ELSE s.inner_state,
   output_seq_str |-> s.output_seq_str \o <<OutputClassOf(s, c)>>]

(* the loop of make_output_seq after its first n iterations *)
RECURSIVE make_output_seq_loop(_, _)
make_output_seq_loop(input_seq, n) ==
  IF n = 0 THEN NewOutputState
  ELSE The({ make_output_seq_step(s, input_classes[input_seq[n] + 1]) :
               s \in {make_output_seq_loop(input_seq, n - 1)} })

(* Task12AXDataset.make_output_seq(input_seq) *)
make_output_seq(input_seq) ==
  The({ [k \in DOMAIN str |-> ClassIndex(output_classes, str[k])] :
          str \in {make_output_seq_loop(input_seq, Len(input_seq)).output_seq_str} })

(* a Task12AXDataset before its first epoch, with the input sequence that  *)
(* make_output_seq is going to be called with                              *)
Task12AXDataset(input_seq) == [epoch |-> 0, input_seq |-> input_seq]

----------------------------------------------------------------------------
(* The network at set-up. *)

Dropouts == {0, 5, 10}
TrainFlags == {"True", "False", "Tensor"}

(* descriptors an external input can have: dense batch-major of width 2,   *)
(* dense time-major of width 3, and a sparse one                           *)
DenseBatchMajor == NewData(<<None, 2>>, 2, FALSE, 0, 1, "float32")

DenseTimeMajor == NewData(<<None, 3>>, 3, FALSE, 1, 0, "float32")

SourceKinds ==
  { DenseBatchMajor,
    DenseTimeMajor,
    NewData(<<None>>, 3, TRUE, 0, 1, "int32") }

(* lists of up to two different layers, in either order *)
SrcTuples(n) ==
  {<<>>} \cup {<<a>> : a \in 1..n}
         \cup {<<p[1], p[2]>> : p \in {q \in (1..n) \X (1..n) : q[1] # q[2]}}

SeqLens == [1..BatchSize -> 0..MaxT]

Layer(cls, sources, output, input_data) ==
  [cls |-> cls, sources |-> sources, output |-> output,
   input_data |-> input_data]

(* last: what the last call was and what it returned; of a call that      *)
(* raised, which call it was and on which layers                           *)
Call(op, srcs, dropout, ret, arg) ==
  [op |-> op, srcs |-> srcs, dropout |-> dropout, ok |-> TRUE, ret |-> ret,
   arg |-> arg]

Raised(op, srcs) ==
  [op |-> op, srcs |-> srcs, dropout |-> 0, ok |-> FALSE, ret |-> 0, arg |-> <<>>]

NoCall == [op |-> "none", srcs |-> <<>>, dropout |-> 0, ok |-> TRUE, ret |-> 0,
           arg |-> <<>>]

(* the size_placeholder of an external input: an entry for every axis of   *)
(* shape without a static extent; axis 0 has the lengths ls, a further     *)
(* axis other lengths                                                      *)
SourceSizes(kind, ls) ==
  [a \in {k - 1 : k \in {j \in DOMAIN kind.shape : kind.shape[j] = None}} |->
     [i \in DOMAIN ls |-> ls[i] + a]]

(* the keys (tuple(src_layers), float(dropout)) a request can have *)
RequestKeys ==
  {CacheKey(srcs, rate) : srcs \in SrcTuples(NumSources) \ {<<>>},
                          rate \in {r \in Dropouts : r < RateOne}}

(* the first external input is dense and batch-major, the others are of    *)
(* any kind                                                                *)
AnySources == {ks \in [1..NumSources -> SourceKinds] : ks[1] = DenseBatchMajor}

(* a dense batch-major input with two axes of dynamic length *)
DenseTwoSpatial == NewData(<<None, None, 2>>, 2, FALSE, 0, 1, "float32")

(* inputs for reduce layers: one, or two of the same layout *)
ReduceSources ==
  {[i \in 1..NumSources |-> k] :
     k \in {DenseBatchMajor, DenseTimeMajor, DenseTwoSpatial}}

(* inputs for convolution layers: those, or sparse ones *)
ConvSources ==
  ReduceSources
  \cup {[i \in 1..NumSources |-> NewData(<<None>>, 3, TRUE, 0, 1, "int32")]}

(* dense inputs only, batch-major and time-major in turn *)
DenseSources ==
  {[i \in 1..NumSources |-> IF i % 2 = 1 THEN DenseBatchMajor ELSE DenseTimeMajor]}

(* no dataset is set up *)
NoDataset == [epoch |-> 0]

(* The network with its external inputs, each with its own placeholder and *)
(* size_placeholder, after the SourceLayers of the first n of them are     *)
(* built: each has the extern data as its output and has marked its key    *)
(* as used; nothing is cached and no seed is drawn.                        *)
InitGraph(flags, kinds, lens, extents, keys, n) ==
  /\ train_flag \in flags
  /\ \E ks \in kinds, ls \in lens, T \in extents :
       /\ T >= MaxSeq(ls)
       /\ data = [i \in 1..NumSources |->
                    [ks[i] EXCEPT !.placeholder = i, !.size_placeholder = i]]
       /\ dicts = [i \in 1..NumSources |-> SourceSizes(ks[i], ls)]
       /\ ops = [i \in 1..NumSources |-> Op("input", <<i>>, 0, 0, T)]
       /\ layers = [i \in 1..n |-> Layer("source", <<>>, i, 0)]
  /\ concat_sources_dropout_cache = <<>>
  /\ random_draws = 0
  /\ last = NoCall
  /\ \E k \in keys : first_ret = [key |-> k, placeholder |-> 0]
  /\ used_data_keys = 1..n
  /\ LayerClassDict = <<>>
  /\ LossClassDict = <<>>
  /\ last_hidden_state = <<>>

(* that network where no dataset is set up *)
InitExtern(flags, kinds, lens, extents, keys, n) ==
  /\ InitGraph(flags, kinds, lens, extents, keys, n)
  /\ dataset = NoDataset

(* The network after the SourceLayers of all its external inputs are built *)
InitLayers(flags, kinds, lens, extents, keys) ==
  InitExtern(flags, kinds, lens, extents, keys, NumSources)

(* no graph description is being built *)
NoBuild == [desc |-> <<>>, map |-> <<>>, stack |-> <<>>, todo |-> <<>>,
            constructed |-> <<>>, status |-> "none"]

(* that network with no cell, no layer with a target or loss and no graph  *)
(* description                                                             *)
InitNet(flags, kinds, lens, extents, keys) ==
  /\ InitLayers(flags, kinds, lens, extents, keys)
  /\ cells = <<>>
  /\ losses = <<>>
  /\ build = NoBuild

Init == InitNet(TrainFlags, AnySources, {<<2, 3>>}, {3}, {<<>>})

(* Objects nothing refers to any more are freed.  What stays keeps its     *)
(* order, so an index still is an identity: a layer's output and           *)
(* input_data, the values of the cache and the value just returned stay.   *)
LiveData(st, lay, ret) ==
  ({lay[i].output : i \in DOMAIN lay} \cup {lay[i].input_data : i \in DOMAIN lay}
     \cup Range(st.cache) \cup {ret} \cup 1..NumSources) \ {0}

Rank(S, id) == Cardinality({j \in S : j <= id})
Nth(S, k) == CHOOSE i \in S : Rank(S, i) = k
Ref(S, id) == IF id = 0 THEN 0 ELSE Rank(S, id)

Compact(st, lay, ret) ==
  The({ The({
    [st |-> [st EXCEPT
               !.data = [k \in 1..Cardinality(live) |->
                           [st.data[Nth(live, k)] EXCEPT
                              !.size_placeholder = Ref(liveDicts, @)]],
               !.dicts = [k \in 1..Cardinality(liveDicts) |->
                            st.dicts[Nth(liveDicts, k)]],
               !.cache = [key \in DOMAIN st.cache |-> Rank(live, st.cache[key])]],
     layers |-> [i \in DOMAIN lay |->
                   [lay[i] EXCEPT !.output = Rank(live, @),
                                  !.input_data = Ref(live, @)]],
     ret |-> Ref(live, ret)]
    : liveDicts \in {{st.data[i].size_placeholder : i \in live} \ {0}} })
    : live \in {LiveData(st, lay, ret)} })

(* the store is written back *)
Commit(st) ==
  /\ data' = st.data
  /\ dicts' = st.dicts
  /\ ops' = st.ops
  /\ concat_sources_dropout_cache' = st.cache
  /\ random_draws' = st.random
  /\ used_data_keys' = st.used

(* the end of a call that built no layer: r is what it returned *)
Finish(op, srcs, dropout, r, arg) ==
  /\ Len(r.st.ops) <= MaxOps
  /\ \E c \in {Compact(r.st, layers, r.ret)} :
       /\ Commit(c.st)
       /\ layers' = c.layers
       /\ last' = IF r.ok THEN Call(op, srcs, dropout, c.ret, arg)
                  ELSE Raised(op, srcs)

(* first_ret: for one key (tuple(src_layers), dropout), fixed at set-up,   *)
(* the placeholder that the first request for that key returned (0: the    *)
(* key was not requested yet)                                              *)
NoteFirst(srcs, dropout, r) ==
  first_ret' =
    IF r.ok /\ first_ret.key = CacheKey(srcs, dropout) /\ first_ret.placeholder = 0
    THEN [first_ret EXCEPT !.placeholder = r.st.data[r.ret].placeholder]
    ELSE first_ret

(* a call of concat_sources(src_layers) *)
CallConcatSources ==
  /\ \E srcs \in SrcTuples(Len(layers)) :
       \E r \in {concat_sources(Store, srcs)} :
         Finish("concat_sources", srcs, 0, r, <<>>)
  /\ UNCHANGED <<train_flag, first_ret, cells, losses, build>>
  /\ UNCHANGED <<LayerClassDict, LossClassDict, last_hidden_state, dataset>>

(* a call of concat_sources_with_opt_dropout(src_layers, dropout) *)
CallConcatSourcesWithOptDropout ==
  /\ \E srcs \in SrcTuples(Len(layers)), dropout \in Dropouts :
       \E r \in {concat_sources_with_opt_dropout(Store, train_flag, srcs, dropout)} :
         /\ NoteFirst(srcs, dropout, r)
         /\ Finish("concat_sources_with_opt_dropout", srcs, dropout, r, <<>>)
  /\ UNCHANGED <<train_flag, cells, losses, build>>
  /\ UNCHANGED <<LayerClassDict, LossClassDict, last_hidden_state, dataset>>

(* the end of a constructor call: the network keeps the layer if the      *)
(* constructor returned, and calls post_init on it                         *)
FinishLayer(cls, srcs, dropout, r, arg, use_batch_norm) ==
  LET st1 == IF r.ok THEN post_init(r.st, r.ret, use_batch_norm) ELSE r.st
      lay == IF r.ok THEN Append(layers, Layer(cls, srcs, r.ret, r.input_data))
             ELSE layers
  IN /\ Len(st1.ops) <= MaxOps
     /\ \E c \in {Compact(st1, lay, r.ret)} :
          /\ Commit(c.st)
          /\ layers' = c.layers
          /\ last' = IF r.ok THEN Call(cls, srcs, dropout, c.ret, arg)
                     ELSE Raised(cls, srcs)

Activations == {"none", "relu"}

(* the network builds a layer of class "copy" *)
ConstructCopyLayer ==
  /\ Len(layers) < MaxLayers
  /\ \E srcs \in SrcTuples(Len(layers)), dropout \in Dropouts,
        use_batch_norm \in BOOLEAN :
       \E r \in {CopyLayer_init(Store, train_flag, srcs, dropout)} :
         FinishLayer("copy", srcs, dropout, r,
                     [batch_norm |-> use_batch_norm], use_batch_norm)
  /\ UNCHANGED <<train_flag, first_ret, cells, losses, build>>
  /\ UNCHANGED <<LayerClassDict, LossClassDict, last_hidden_state, dataset>>

(* the network builds a layer of class "activation" *)
ConstructActivationLayer ==
  /\ Len(layers) < MaxLayers
  /\ \E srcs \in SrcTuples(Len(layers)), dropout \in Dropouts,
        activation \in Activations :
       \E r \in {ActivationLayer_init(Store, train_flag, srcs, dropout, activation)} :
         FinishLayer("activation", srcs, dropout, r,
                     [activation |-> activation], FALSE)
  /\ UNCHANGED <<train_flag, first_ret, cells, losses, build>>
  /\ UNCHANGED <<LayerClassDict, LossClassDict, last_hidden_state, dataset>>

(* slice_start, slice_end, slice_step: omitted, positive, and one case of  *)
(* each value the layer refuses                                            *)
SliceArgs ==
  {[start |-> a, end |-> b, step |-> c] :
     a \in {None, 1, 2}, b \in {None, 1, 2}, c \in {None, 2}}
  \cup {[start |-> 0 - 1, end |-> None, step |-> None],
        [start |-> None, end |-> 0 - 1, step |-> None],
        [start |-> None, end |-> None, step |-> 0]}

(* axis by role ("T", "B", "F") or by index *)
SliceAxes ==
  {[axis |-> None, axis_kind |-> k] : k \in {"T", "B", "F"}}
  \cup {[axis |-> 1, axis_kind |-> ""]}

(* the network builds a layer of class "slice" *)
ConstructSliceLayer ==
  /\ Len(layers) < MaxLayers
  /\ \E srcs \in SrcTuples(Len(layers)), ax \in SliceAxes, sl \in SliceArgs :
       \E r \in {SliceLayer_init(Store, train_flag, srcs, 0, ax.axis, ax.axis_kind,
                                  sl.start, sl.end, sl.step)} :
         FinishLayer("slice", srcs, 0, r,
                     [axis |-> ax.axis, axis_kind |-> ax.axis_kind, start |-> sl.start,
                      end |-> sl.end, step |-> sl.step], FALSE)
  /\ UNCHANGED <<train_flag, first_ret, cells, losses, build>>
  /\ UNCHANGED <<LayerClassDict, LossClassDict, last_hidden_state, dataset>>

(* axis: an index, a list of indices or a name *)
ReduceAxes ==
  {[name |-> "", axes |-> <<a>>] : a \in {0, 1, 2, 0 - 1}}
  \cup {[name |-> "", axes |-> <<1, 2>>]}
  \cup {[name |-> n, axes |-> <<>>] :
          n \in {"batch", "spatial", "spatial_except_time", "feature"}}

(* the network builds a layer of class "reduce" *)
ConstructReduceLayer ==
  /\ Len(layers) < MaxLayers
  /\ \E srcs \in SrcTuples(Len(layers)), axis \in ReduceAxes, keep_dims \in BOOLEAN :
       \E r \in {ReduceLayer_init(Store, train_flag, srcs, 0, axis, keep_dims)} :
         FinishLayer("reduce", srcs, 0, r,
                     [axis |-> axis, keep_dims |-> keep_dims], FALSE)
  /\ UNCHANGED <<train_flag, first_ret, cells, losses, build>>
  /\ UNCHANGED <<LayerClassDict, LossClassDict, last_hidden_state, dataset>>

(* the network builds a layer of class "batch_norm" *)
ConstructBatchNormLayer ==
  /\ Len(layers) < MaxLayers
  /\ \E srcs \in SrcTuples(Len(layers)) :
       \E r \in {BatchNormLayer_init(Store, train_flag, srcs)} :
         FinishLayer("batch_norm", srcs, 0, r, <<>>, TRUE)
  /\ UNCHANGED <<train_flag, first_ret, cells, losses, build>>
  /\ UNCHANGED <<LayerClassDict, LossClassDict, last_hidden_state, dataset>>

(* Layers with a target or loss. *)

MaxLossOps == 9

LinearActivations == {"none", "softmax", "relu"}
NOuts == {None, 2, 3, 4}

(* the network builds a layer of class "linear", with or without target,   *)
(* loss and n_out, and keeps what the layer needs for its loss             *)
ConstructLinearLayer ==
  /\ Len(layers) < MaxLayers
  /\ \E srcs \in SrcTuples(Len(layers)), activation \in LinearActivations,
        n_out \in NOuts, target \in 0..Len(layers),
        loss \in {"none"} \cup LossClasses, use_batch_norm \in BOOLEAN :
       \E r \in {LinearLayer_init(Store, train_flag, srcs, 0, activation, n_out,
                                  target, loss)} :
         /\ FinishLayer("linear", srcs, 0, r,
                        [activation |-> activation, n_out |-> n_out,
                         target |-> target, loss |-> loss,
                         batch_norm |-> use_batch_norm], use_batch_norm)
         /\ losses' =
              IF r.ok
              THEN LET y == r.st.data[r.ret].placeholder
                       x == IF activation = "none" THEN y ELSE r.st.ops[y].input
                       new == LayerLoss(EffectiveTarget(target, loss), loss, x, y,
                                        activation)
                   IN [j \in DOMAIN losses \cup {Len(layers) + 1} |->
                         IF j = Len(layers) + 1 THEN new ELSE losses[j]]
              ELSE losses
  /\ UNCHANGED <<train_flag, first_ret, cells, build>>
  /\ UNCHANGED <<LayerClassDict, LossClassDict, last_hidden_state, dataset>>

(* last, for a call of get_loss_value or get_error_value on the layer i *)
LossCall(op, i, r) ==
  [op |-> op, srcs |-> <<i>>, dropout |-> 0, ok |-> r.ok, ret |-> r.ret,
   arg |-> [executed |-> r.executed, inited |-> r.inited]]

(* the end of such a call: the tensors it built and the Loss object as the *)
(* call left it stay, also when the call raised                            *)
FinishLossCall(op, i, r) ==
  /\ Len(r.st.ops) <= MaxLossOps
  /\ Commit(r.st)
  /\ losses' = IF i \in DOMAIN losses /\ losses[i].loss.cls # "none"
               THEN [losses EXCEPT ![i].loss = r.loss] ELSE losses
  /\ last' = LossCall(op, i, r)
  /\ UNCHANGED <<train_flag, layers, first_ret, cells, build>>
  /\ UNCHANGED <<LayerClassDict, LossClassDict, last_hidden_state, dataset>>

(* a call of layer.get_loss_value() *)
CallGetLossValue ==
  \E i \in DOMAIN layers :
    \E r \in {LayerBase_get_loss_or_error(Store, i, "value")} :
      FinishLossCall("get_loss_value", i, r)

(* a call of layer.get_error_value() *)
CallGetErrorValue ==
  \E i \in DOMAIN layers :
    \E r \in {LayerBase_get_loss_or_error(Store, i, "error")} :
      FinishLossCall("get_error_value", i, r)

(* the most tensors a network with a recurrent layer has *)
MaxRecOps == 10

RecNOuts == {None, 3, 4, 8}
Directions == {None, 1, 0 - 1}

(* the network has called RecLayer.__init__, which gave r: the layer is    *)
(* added if it did not raise; cells holds the cells that this call has     *)
(* constructed                                                             *)
FinishRecLayer(srcs, r, arg) ==
  LET lay == IF r.ok THEN Append(layers, Layer("rec", srcs, r.ret, r.input_data))
             ELSE layers
  IN /\ Len(r.st.ops) <= MaxRecOps
     /\ \E c \in {Compact(r.st, lay, r.ret)} :
          /\ Commit(c.st)
          /\ layers' = c.layers
          /\ last' = [Call("rec", srcs, 0, c.ret, arg) EXCEPT !.ok = r.ok]
     /\ cells' = r.cells

(* the network builds a layer of class "rec"; a constructor that raised    *)
(* has ended the build                                                     *)
ConstructRecLayer ==
  /\ Len(layers) < MaxLayers
  /\ last.ok
  /\ \E srcs \in SrcTuples(Len(layers)), n_out \in RecNOuts, unit \in RecUnits,
        bidirectional \in BOOLEAN, direction \in Directions,
        output_feedback \in RecOptions, attention \in RecOptions :
       \E r \in {RecLayer_init(Store, train_flag, srcs, 0, n_out, unit,
                               bidirectional, direction, output_feedback,
                               attention)} :
         /\ FinishRecLayer(srcs, r,
                           [n_out |-> n_out, unit |-> unit,
                            bidirectional |-> bidirectional,
                            direction |-> direction,
                            output_feedback |-> output_feedback,
                            attention |-> attention])
         /\ last_hidden_state' =
              IF r.ok
              THEN WithHiddenState(Len(layers) + 1,
                     RecLayer_last_hidden_state(Len(layers) + 1, unit,
                       r.st.data[r.ret].dim, bidirectional, output_feedback,
                       attention))
              ELSE last_hidden_state
  /\ UNCHANGED <<train_flag, first_ret, losses, build>>
  /\ UNCHANGED <<LayerClassDict, LossClassDict, dataset>>

----------------------------------------------------------------------------
(* Building a network from a description: transform_config_dict with the   *)
(* network's get_layer.                                                    *)

(* the names a description declares, in the order the network asks for     *)
(* them                                                                    *)
LayerNames == {"a", "b", "c"}
SortedNames == <<"a", "b", "c">>

(* the output width of the declared rec layers *)
RecWidth == 4

(* the description of a copy layer, of a rec layer *)
CopyDesc(has_from, from) ==
  [class |-> "copy", has_from |-> has_from, from |-> from,
   initial_state |-> <<>>, n_out |-> None]
RecDesc(has_from, from, initial_state) ==
  [class |-> "rec", has_from |-> has_from, from |-> from,
   initial_state |-> initial_state, n_out |-> RecWidth]

(* the descriptions a layer can have: without "from", from one name (one   *)
(* of them declared nowhere), from two layers, from "none" and the data;   *)
(* a rec layer with an initial_state from another layer                    *)
LayerDescs ==
  {CopyDesc(FALSE, <<>>), CopyDesc(TRUE, <<"none", "data">>),
   CopyDesc(TRUE, <<"undeclared">>)}
  \cup {CopyDesc(TRUE, <<x>>) : x \in LayerNames \cup {"data"}}
  \cup {CopyDesc(TRUE, <<p[1], p[2]>>) :
          p \in {q \in LayerNames \X LayerNames : q[1] # q[2]}}
  \cup {RecDesc(FALSE, <<>>, i) : i \in {<<>>} \cup {<<x>> : x \in LayerNames}}
  \cup {RecDesc(TRUE, <<x>>, <<>>) : x \in LayerNames}

(* src_names = d.pop("from", ["data"]) *)
SrcNames(d) == IF d.has_from THEN d.from ELSE <<"data">>

(* get_layer is called for "none" as for every other name *)
TransformRefs_KeepNone(d) == SrcNames(d)

(* LayerBase.transform_config_dict: the names get_layer is called for *)
TransformRefs(d) == SelectSeq(SrcNames(d), LAMBDA n : n # "none")

(* RecLayer.transform_config_dict: after the base class's, get_layer for   *)
(* every layer of initial_state                                            *)
InitialStateRefs(d) == IF d.class = "rec" THEN d.initial_state ELSE <<>>

(* a transform_config_dict call under way for the layer name: the names    *)
(* still to get, and the sources got                                       *)
NewFrame(d, name) ==
  [name |-> name, from |-> TransformRefs(d), sources |-> <<>>,
   initial_state |-> InitialStateRefs(d)]

(* the network about to build the description desc: the extern data is in  *)
(* its layer map                                                           *)
NewBuild(desc) ==
  [desc |-> desc, map |-> [n \in {"data"} |-> 1], stack |-> <<>>,
   todo |-> SortedNames, constructed |-> [n \in LayerNames |-> 0],
   status |-> "building"]

(* get_layer returns the layer to the transform_config_dict that called    *)
(* it: to the list of sources, or as an initial state                      *)
ReturnLayer(stack, layer) ==
  IF stack = <<>> THEN stack
  ELSE LET f == stack[Len(stack)]
       IN [stack EXCEPT ![Len(stack)] =
             IF f.from # <<>>
             THEN [f EXCEPT !.from = Tail(@), !.sources = Append(@, layer)]
             ELSE [f EXCEPT !.initial_state = Tail(@)]]

(* a get_layer that finds no layer but the extern data in the map *)
get_layer_NoMemo(b, name) ==
  IF name = "data"
  THEN [b EXCEPT !.stack = ReturnLayer(@, b.map[name])]
  ELSE IF name \notin DOMAIN b.desc
          \/ \E k \in DOMAIN b.stack : b.stack[k].name = name
       THEN [b EXCEPT !.status = "unresolved"]
  ELSE [b EXCEPT !.stack = Append(@, NewFrame(b.desc[name], name))]

(* the network's get_layer(name): the layer of the map if it is there;     *)
(* else the description is looked up (fatal if there is none, or if the    *)
(* layer is being resolved already) and its transform_config_dict starts   *)
get_layer(b, name) ==
  IF name \in DOMAIN b.map
  THEN [b EXCEPT !.stack = ReturnLayer(@, b.map[name])]
  ELSE IF name \notin DOMAIN b.desc
          \/ \E k \in DOMAIN b.stack : b.stack[k].name = name
       THEN [b EXCEPT !.status = "unresolved"]
  ELSE [b EXCEPT !.stack = Append(@, NewFrame(b.desc[name], name))]

(* the constructor of the layer class of the description d *)
LayerClass_init(st, flag, d, srcs) ==
  IF d.class = "copy"
  THEN The({ [ok |-> r.ok, st |-> r.st, ret |-> r.ret,
              input_data |-> r.input_data, cells |-> <<>>]
             : r \in {CopyLayer_init(st, flag, srcs, 0)} })
  ELSE RecLayer_init(st, flag, srcs, 0, d.n_out, "basiclstm", FALSE, None,
                     "False", "False")

(* the network asks for the next declared layer *)
RequestLayer ==
  /\ build.status = "building"
  /\ build.stack = <<>> /\ build.todo # <<>>
  /\ build' = get_layer([build EXCEPT !.todo = Tail(@)], Head(build.todo))
  /\ UNCHANGED <<data, dicts, ops, layers, concat_sources_dropout_cache,
                 random_draws, last, train_flag, first_ret, cells, losses,
                 used_data_keys>>
  /\ UNCHANGED <<LayerClassDict, LossClassDict, last_hidden_state, dataset>>

(* transform_config_dict calls get_layer for the next name *)
ResolveReference ==
  /\ build.status = "building"
  /\ build.stack # <<>>
  /\ \E f \in {build.stack[Len(build.stack)]} :
       /\ f.from # <<>> \/ f.initial_state # <<>>
       /\ build' = get_layer(build, IF f.from # <<>> THEN Head(f.from)
                                    ELSE Head(f.initial_state))
  /\ UNCHANGED <<data, dicts, ops, layers, concat_sources_dropout_cache,
                 random_draws, last, train_flag, first_ret, cells, losses,
                 used_data_keys>>
  /\ UNCHANGED <<LayerClassDict, LossClassDict, last_hidden_state, dataset>>

(* transform_config_dict has returned: the layer is constructed from its   *)
(* sources, put into the map and returned to the get_layer that asked      *)
ConstructLayer ==
  /\ build.status = "building"
  /\ build.stack # <<>>
  /\ \E f \in {build.stack[Len(build.stack)]} :
       /\ f.from = <<>> /\ f.initial_state = <<>>
       /\ \E r \in {LayerClass_init(Store, train_flag, build.desc[f.name],
                                    f.sources)} :
            LET lay == IF r.ok
                       THEN Append(layers, Layer(build.desc[f.name].class,
                                                 f.sources, r.ret, r.input_data))
                       ELSE layers
            IN \E c \in {Compact(r.st, lay, r.ret)} :
                 /\ Commit(c.st)
                 /\ layers' = c.layers
                 /\ last' = [Call(build.desc[f.name].class, f.sources, 0, c.ret,
                                  [name |-> f.name]) EXCEPT !.ok = r.ok]
                 /\ cells' = IF r.ok THEN cells \o r.cells ELSE cells
                 /\ build' =
                      IF r.ok
                      THEN [build EXCEPT
                              !.map = [n \in DOMAIN @ \cup {f.name} |->
                                         IF n = f.name THEN Len(c.layers)
                                         ELSE @[n]],
                              !.constructed[f.name] = @ + 1,
                              !.stack = ReturnLayer(SubSeq(@, 1, Len(@) - 1),
                                                    Len(c.layers))]
                      ELSE [build EXCEPT !.status = "raised"]
  /\ UNCHANGED <<train_flag, first_ret, losses>>
  /\ UNCHANGED <<LayerClassDict, LossClassDict, last_hidden_state, dataset>>

(* every declared layer has been asked for *)
EndBuild ==
  /\ build.status = "building"
  /\ build.stack = <<>> /\ build.todo = <<>>
  /\ build' = [build EXCEPT !.status = "done"]
  /\ UNCHANGED <<data, dicts, ops, layers, concat_sources_dropout_cache,
                 random_draws, last, train_flag, first_ret, cells, losses,
                 used_data_keys>>
  /\ UNCHANGED <<LayerClassDict, LossClassDict, last_hidden_state, dataset>>

----------------------------------------------------------------------------
(* ConvLayer in the network. *)

(* the most tensors a network with a convolution layer has *)
MaxConvOps == 8

(* the widest filter *)
MaxFilter == 2

(* filter_size for 1D and 2D convolution *)
FilterSizes ==
  {<<f>> : f \in 1..MaxFilter}
  \cup {<<p[1], p[2]>> : p \in (1..MaxFilter) \X (1..MaxFilter)}

(* padding.upper() of "same" and "valid" *)
Paddings == {"SAME", "VALID"}

(* input_split_feature_dim: not set, or 2 *)
SplitDims == {None, 2}

(* the network builds a layer of class "conv" with n_out = 2; a            *)
(* constructor that raised has ended the build                             *)
ConstructConvLayer ==
  /\ Len(layers) < MaxLayers
  /\ last.ok
  /\ \E srcs \in SrcTuples(Len(layers)), filter_size \in FilterSizes,
        padding \in Paddings, input_expand_dims \in 0..1,
        input_add_feature_dim \in BOOLEAN,
        input_split_feature_dim \in SplitDims :
       \E r \in {ConvLayer_init(Store, train_flag, srcs, 0, 2, filter_size,
                                padding, input_expand_dims,
                                input_add_feature_dim,
                                input_split_feature_dim)} :
         LET lay == IF r.ok
                    THEN Append(layers, Layer("conv", srcs, r.ret, r.input_data))
                    ELSE layers
         IN /\ Len(r.st.ops) <= MaxConvOps
            /\ \E c \in {Compact(r.st, lay, r.ret)} :
                 /\ Commit(c.st)
                 /\ layers' = c.layers
                 /\ last' = [Call("conv", srcs, 0, c.ret,
                                  [filter_size |-> filter_size,
                                   padding |-> padding,
                                   input_expand_dims |-> input_expand_dims,
                                   input_add_feature_dim |-> input_add_feature_dim,
                                   input_split_feature_dim |-> input_split_feature_dim])
                             EXCEPT !.ok = r.ok]
  /\ UNCHANGED <<train_flag, first_ret, cells, losses, build>>
  /\ UNCHANGED <<LayerClassDict, LossClassDict, last_hidden_state, dataset>>


----------------------------------------------------------------------------
(* Lookups in the registries. *)

(* names asked for: every layer_class, the alias, and names of no class *)
LayerClassNames ==
  {ModuleLayerClasses[i].layer_class : i \in DOMAIN ModuleLayerClasses}
  \cup {"forward", "lstm", "CopyLayer"}

LossClassNames == {"ce", "generic_ce", "ctc", "mse"}

(* the network asks for the class of a layer it is to construct *)
CallGetLayerClass ==
  /\ \E name \in LayerClassNames :
       \E r \in {get_layer_class(LayerClassDict, name)} :
         /\ LayerClassDict' = r.dict
         /\ last' = [Call("get_layer_class", <<>>, 0, 0,
                          [name |-> name, ret |-> r.ret, exc |-> r.exc,
                           arg |-> r.arg])
                     EXCEPT !.ok = r.ok]
  /\ UNCHANGED <<train_flag, layers, data, dicts, ops,
                 concat_sources_dropout_cache, random_draws, first_ret, cells,
                 losses, build, used_data_keys, LossClassDict,
                 last_hidden_state, dataset>>

(* transform_config_dict asks for the class of a loss *)
CallGetLossClass ==
  /\ \E name \in LossClassNames :
       \E r \in {get_loss_class(LossClassDict, name)} :
         /\ LossClassDict' = r.dict
         /\ last' = [Call("get_loss_class", <<>>, 0, 0,
                          [name |-> name, ret |-> r.ret, exc |-> r.exc,
                           arg |-> r.arg])
                     EXCEPT !.ok = r.ok]
  /\ UNCHANGED <<train_flag, layers, data, dicts, ops,
                 concat_sources_dropout_cache, random_draws, first_ret, cells,
                 losses, build, used_data_keys, LayerClassDict,
                 last_hidden_state, dataset>>


----------------------------------------------------------------------------
(* Shape inference and the layers that read external inputs. *)

(* out_type as a caller gives it: None, only a dim, or a whole shape *)
OutTypes ==
  { OutTypeNone,
    DictSet(<<>>, "dim", 2),
    DictSet(DictSet(<<>>, "shape", <<None, 3>>), "dim", 3) }

(* the sources a shape is inferred from: none or one of the layers *)
ShapeSrcs(n) == {<<>>} \cup {<<a>> : a \in 1..n}

(* a call that only infers a shape: of LayerBase, SourceLayer, CopyLayer   *)
(* or ConvLayer                                                            *)
ShapeInference(variant, out_type, n_out, target, loss, srcs) ==
  CASE variant = "base" ->
         get_out_data_from_opts(Store, out_type, n_out, target, loss, srcs)
    [] variant = "source" ->
         The({ OutDataReturned(r.st, r.ret, out_type)
               : r \in {SourceLayer_get_out_data_from_opts(
                          Store, IF target = 0 THEN None ELSE target)} })
    [] variant = "copy" ->
         IF ~ConcatTemplateOk(Store, srcs) THEN OutDataRaised(Store, out_type)
         ELSE The({ OutDataReturned(st1, Len(st1.data), out_type)
                    : st1 \in {AllocData(Store,
                                 get_concat_sources_data_template(Store, srcs))} })
    [] variant = "conv" ->
         The({ IF r.ok THEN OutDataReturned(r.st, r.ret, out_type)
               ELSE OutDataRaised(r.st, out_type)
               : r \in {ConvLayer_get_out_data_from_opts(
                          Store, n_out, <<1>>, srcs)} })

(* the network infers the output shape of a layer it does not construct,   *)
(* for one of the given variants, out_types and n_outs and from at most    *)
(* the first max_src layers                                                *)
InferShape(variants, out_types, n_outs, max_src) ==
  /\ \E variant \in variants, out_type \in out_types,
        n_out \in n_outs, target \in {0, NumSources},
        loss \in {"none", "ce"},
        srcs \in ShapeSrcs(IF Len(layers) < max_src THEN Len(layers)
                           ELSE max_src) :
       /\ variant # "base" => out_type = OutTypeNone /\ loss = "none"
       /\ variant \in {"source", "copy"} => n_out = None
       /\ variant \in {"copy", "conv"} => target = 0
       /\ variant = "source" => srcs = <<>>
       /\ \E r \in {ShapeInference(variant, out_type, n_out, target, loss, srcs)} :
            \E c \in {Compact(r.st, layers, r.ret)} :
              /\ Commit(c.st)
              /\ layers' = c.layers
              /\ last' = [Call("get_out_data_from_opts", srcs, 0, c.ret,
                               [variant |-> variant, out_type |-> out_type,
                                out_type_after |-> r.out_type, n_out |-> n_out,
                                target |-> target, loss |-> loss])
                          EXCEPT !.ok = r.ok]
  /\ UNCHANGED <<train_flag, first_ret, cells, losses, build, LayerClassDict,
                 LossClassDict, last_hidden_state, dataset>>

MaxSoftmaxLayers == 1

(* the network builds a layer of class "softmax": a LinearLayer whose      *)
(* activation is "softmax", with or without target and loss                *)
ConstructSoftmaxLayer ==
  /\ Len(layers) < MaxLayers
  /\ Cardinality({i \in DOMAIN layers : layers[i].cls = "softmax"})
       < MaxSoftmaxLayers
  /\ \E srcs \in ShapeSrcs(Len(layers)), n_out \in {None, 3},
        target \in {0, NumSources}, loss \in {"none", "ce"} :
       \E r \in {LinearLayer_init(Store, train_flag, srcs, 0, "softmax", n_out,
                                  target, loss)} :
         /\ FinishLayer("softmax", srcs, 0, r,
                        [activation |-> "softmax", n_out |-> n_out,
                         target |-> target, loss |-> loss,
                         batch_norm |-> FALSE], FALSE)
         /\ losses' =
              IF r.ok
              THEN LET y == r.st.data[r.ret].placeholder
                       x == r.st.ops[y].input
                       new == LayerLoss(EffectiveTarget(target, loss), loss, x, y,
                                        "softmax")
                   IN [j \in DOMAIN losses \cup {Len(layers) + 1} |->
                         IF j = Len(layers) + 1 THEN new ELSE losses[j]]
              ELSE losses
  /\ UNCHANGED <<train_flag, first_ret, cells, build>>
  /\ UNCHANGED <<LayerClassDict, LossClassDict, last_hidden_state, dataset>>

(* shape inference with every option *)
CallGetOutDataFromOpts ==
  InferShape({"base", "source", "copy", "conv"}, OutTypes, {None, 2}, MaxLayers)

(* shape inference from the target and the loss alone *)
CallGetOutDataFromTarget ==
  InferShape({"base", "source"}, {OutTypeNone}, {None}, 0)

(* the network builds the SourceLayer of an external input *)
ConstructSourceLayer ==
  /\ Len(layers) < MaxLayers
  /\ \E data_key \in {None} \cup 1..NumSources :
       \E r \in {SourceLayer_init(Store, data_key, <<>>)} :
         \E c \in {Compact(r.st, Append(layers, Layer("source", <<>>, r.ret, 0)),
                           r.ret)} :
           /\ Commit(c.st)
           /\ layers' = c.layers
           /\ last' = Call("source", <<>>, 0, c.ret, [data_key |-> data_key])
  /\ UNCHANGED <<train_flag, first_ret, cells, losses, build, LayerClassDict,
                 LossClassDict, last_hidden_state, dataset>>

(* the network builds a layer of class "framewise_statistics" *)
ConstructFramewiseStatisticsLayer ==
  /\ Len(layers) < MaxLayers
  /\ \E srcs \in ShapeSrcs(Len(layers)) :
       \E r \in {FramewiseStatisticsLayer_init(Store, srcs)} :
         LET lay == IF r.ok
                    THEN Append(layers, Layer("framewise_statistics", srcs,
                                              r.ret, 0))
                    ELSE layers
         IN /\ Len(r.st.ops) <= MaxLossOps
            /\ \E c \in {Compact(r.st, lay, r.ret)} :
                 /\ Commit(c.st)
                 /\ layers' = c.layers
                 /\ last' = [Call("framewise_statistics", srcs, 0, c.ret, <<>>)
                             EXCEPT !.ok = r.ok]
  /\ UNCHANGED <<train_flag, first_ret, cells, losses, build, LayerClassDict,
                 LossClassDict, last_hidden_state, dataset>>


----------------------------------------------------------------------------
(* Layers with a last hidden state, and layers over them. *)

MaxHiddenLayers == 4
MaxHiddenOps == 10

(* the network builds a layer of class "rec" over the first input's        *)
(* SourceLayer, in one direction and without output_feedback and attention *)
ConstructRecLayerForward ==
  /\ Len(layers) < MaxHiddenLayers
  /\ \E srcs \in {<<DefaultInput>>}, n_out \in {4},
        unit \in {"lstm", "basiclstm"}, bidirectional \in {FALSE} :
       \E r \in {RecLayer_init(Store, train_flag, srcs, 0, n_out, unit,
                               bidirectional, None, "False", "False")} :
         /\ FinishRecLayer(srcs, r,
                           [n_out |-> n_out, unit |-> unit,
                            bidirectional |-> bidirectional,
                            direction |-> None, output_feedback |-> "False",
                            attention |-> "False"])
         /\ last_hidden_state' =
              IF r.ok
              THEN WithHiddenState(Len(layers) + 1,
                     RecLayer_last_hidden_state(Len(layers) + 1, unit,
                       r.st.data[r.ret].dim, bidirectional, "False", "False"))
              ELSE last_hidden_state
  /\ UNCHANGED <<train_flag, first_ret, losses, build>>
  /\ UNCHANGED <<LayerClassDict, LossClassDict, dataset>>

(* the network builds a layer of class "copy" without dropout, which has   *)
(* no last hidden state of its own                                         *)
ConstructCopyLayerOver ==
  /\ Len(layers) < MaxHiddenLayers
  /\ \E srcs \in SrcTuples(Len(layers)) :
       \E r \in {CopyLayer_init(Store, train_flag, srcs, 0)} :
         LET lay == IF r.ok
                    THEN Append(layers, Layer("copy", srcs, r.ret, r.input_data))
                    ELSE layers
         IN /\ Len(r.st.ops) <= MaxHiddenOps
            /\ \E c \in {Compact(r.st, lay, r.ret)} :
                 /\ Commit(c.st)
                 /\ layers' = c.layers
                 /\ last' = [Call("copy", srcs, 0, c.ret, <<>>) EXCEPT !.ok = r.ok]
  /\ UNCHANGED <<train_flag, first_ret, cells, losses, build, LayerClassDict,
                 LossClassDict, last_hidden_state, dataset>>

(* the network builds a layer of class "get_last_hidden_state" *)
ConstructGetLastHiddenStateLayer ==
  /\ Len(layers) < MaxHiddenLayers
  /\ \E srcs \in SrcTuples(Len(layers)), n_out \in {4, 8},
        combine \in {"concat", "add", "mul"} :
       \E r \in {GetLastHiddenStateLayer_init(Store, layers, last_hidden_state,
                                              srcs, n_out, combine)} :
         LET lay == IF r.ok
                    THEN Append(layers, Layer("get_last_hidden_state", srcs,
                                              r.ret, 0))
                    ELSE layers
         IN /\ Len(r.st.ops) <= MaxHiddenOps
            /\ \E c \in {Compact(r.st, lay, r.ret)} :
                 /\ Commit(c.st)
                 /\ layers' = c.layers
                 /\ last' = [Call("get_last_hidden_state_layer", srcs, 0, c.ret,
                                  [n_out |-> n_out, combine |-> combine])
                             EXCEPT !.ok = r.ok]
            /\ last_hidden_state' =
                 IF r.ok THEN WithHiddenState(Len(layers) + 1, r.h)
                 ELSE last_hidden_state
  /\ UNCHANGED <<train_flag, first_ret, cells, losses, build, LayerClassDict,
                 LossClassDict, dataset>>

(* somebody asks the layer i for its last hidden state *)
CallGetLastHiddenState ==
  /\ \E i \in DOMAIN layers :
       \E r \in {get_last_hidden_state(Store, layers, last_hidden_state, i)} :
         /\ Len(r.st.ops) <= MaxHiddenOps
         /\ \E c \in {Compact(r.st, layers, 0)} :
              /\ Commit(c.st)
              /\ layers' = c.layers
              /\ last' = [Call("get_last_hidden_state", <<i>>, 0, 0, [h |-> r.h])
                          EXCEPT !.ok = r.ok]
  /\ UNCHANGED <<train_flag, first_ret, cells, losses, build, LayerClassDict,
                 LossClassDict, last_hidden_state, dataset>>


----------------------------------------------------------------------------
(* Pooling. *)

(* mode.upper() of "max", "avg" and of a mode there is not *)
PoolModes == {"MAX", "AVG", "SUM"}

(* strides: the default, or an int *)
PoolStrideOptions == {None, 1, 2}

(* the network builds a layer of class "pool" *)
ConstructPoolLayer ==
  /\ Len(layers) < MaxLayers
  /\ last.ok
  /\ \E srcs \in SrcTuples(Len(layers)), mode \in PoolModes,
        pool_size \in FilterSizes, padding \in Paddings,
        strides \in PoolStrideOptions :
       \E r \in {PoolLayer_init(Store, train_flag, srcs, 0, mode, pool_size,
                                padding, strides)} :
         LET lay == IF r.ok
                    THEN Append(layers, Layer("pool", srcs, r.ret, r.input_data))
                    ELSE layers
         IN /\ Len(r.st.ops) <= MaxConvOps
            /\ \E c \in {Compact(r.st, lay, r.ret)} :
                 /\ Commit(c.st)
                 /\ layers' = c.layers
                 /\ last' = [Call("pool", srcs, 0, c.ret,
                                  [mode |-> mode, pool_size |-> pool_size,
                                   padding |-> padding, strides |-> strides])
                             EXCEPT !.ok = r.ok]
  /\ UNCHANGED <<train_flag, first_ret, cells, losses, build, LayerClassDict,
                 LossClassDict, last_hidden_state, dataset>>


----------------------------------------------------------------------------
(* The dataset's operations. *)

MaxEpoch == 2
MaxSeqIdx == 4
MaxFrames == 2

(* a new epoch begins *)
CallInitSeqOrder ==
  /\ dataset.epoch < MaxEpoch
  /\ dataset' = init_seq_order(dataset)
  /\ last' = Call("init_seq_order", <<>>, 0, 0, <<>>)
  /\ UNCHANGED <<train_flag, layers, data, dicts, ops,
                 concat_sources_dropout_cache, random_draws, first_ret, cells,
                 losses, build, used_data_keys, LayerClassDict, LossClassDict,
                 last_hidden_state>>

(* _load_seqs(start, end): before the first epoch the attributes are not   *)
(* there and the call raises, as it does where start is below              *)
(* expected_load_seq_start; the generated sequences have any lengths       *)
CallLoadSeqs ==
  /\ \E start \in 0..MaxSeqIdx, end \in 0..(MaxSeqIdx + 1) :
       LET arg == [start |-> start, end |-> end]
       IN IF dataset.epoch = 0 \/ start < dataset.expected_load_seq_start
          THEN /\ dataset' = dataset
               /\ last' = [Call("load_seqs", <<>>, 0, 0, arg) EXCEPT !.ok = FALSE]
          ELSE \E frames \in [GenerateRange(dataset, start, end) -> 1..MaxFrames] :
                 /\ dataset' = load_seqs(dataset, start, end, frames)
                 /\ last' = Call("load_seqs", <<>>, 0, 0, arg)
  /\ UNCHANGED <<train_flag, layers, data, dicts, ops,
                 concat_sources_dropout_cache, random_draws, first_ret, cells,
                 losses, build, used_data_keys, LayerClassDict, LossClassDict,
                 last_hidden_state>>

(* get_num_timesteps(): "assert self.reached_final_seq" *)
CallGetNumTimesteps ==
  /\ last' = IF dataset.epoch > 0 /\ dataset.reached_final_seq
             THEN Call("get_num_timesteps", <<>>, 0, dataset.num_timesteps, <<>>)
             ELSE Raised("get_num_timesteps", <<>>)
  /\ UNCHANGED <<train_flag, layers, data, dicts, ops,
                 concat_sources_dropout_cache, random_draws, first_ret, cells,
                 losses, build, used_data_keys, LayerClassDict, LossClassDict,
                 last_hidden_state, dataset>>


----------------------------------------------------------------------------
(* The 12AX task. *)

MaxInputLen == 5

(* the input sequences: class indices, up to MaxInputLen of them *)
InputSeqs == UNION {[1..n -> 0..(Len(input_classes) - 1)] : n \in 0..MaxInputLen}

(* make_output_seq(input_seq): a class method, the dataset stays *)
CallMakeOutputSeq ==
  /\ last' = Call("make_output_seq", <<>>, 0, make_output_seq(dataset.input_seq),
                  dataset.input_seq)
  /\ UNCHANGED <<train_flag, layers, data, dicts, ops,
                 concat_sources_dropout_cache, random_draws, first_ret, cells,
                 losses, build, used_data_keys, LayerClassDict, LossClassDict,
                 last_hidden_state, dataset>>

----------------------------------------------------------------------------
(* Specifications. *)

(* Consumers calling concat_sources and concat_sources_with_opt_dropout    *)
(* on the layers of one network.                                           *)
Next ==
  \/ CallConcatSources
  \/ CallConcatSourcesWithOptDropout

Spec == Init /\ [][Next]_vars

(* The same calls in a network whose train_flag is not statically False,   *)
(* with the first answer to one key remembered.                            *)
InitCache ==
  InitNet({"True", "Tensor"}, DenseSources, {<<2, 3>>}, {3}, RequestKeys)

NextCache == CallConcatSourcesWithOptDropout

SpecCache == InitCache /\ [][NextCache]_vars

(* The network building a copy, activation or batch-norm layer. *)
NextLayers ==
  \/ ConstructCopyLayer
  \/ ConstructActivationLayer
  \/ ConstructBatchNormLayer

SpecLayers == Init /\ [][NextLayers]_vars

(* The network building a slice layer over inputs of any sequence lengths  *)
(* and any physical time extent that holds them.                           *)
InitSlice == InitNet({"Tensor"}, DenseSources, SeqLens, 0..MaxT, {<<>>})

NextSlice == ConstructSliceLayer

SpecSlice == InitSlice /\ [][NextSlice]_vars

(* The network building a reduce layer. *)
InitReduce == InitNet(TrainFlags, ReduceSources, {<<2, 3>>, <<1, 1>>}, {3}, {<<>>})

NextReduce == ConstructReduceLayer

SpecReduce == InitReduce /\ [][NextReduce]_vars

(* The network building a linear layer with a target or loss, and the      *)
(* engine asking layers for their loss and error values, again after a     *)
(* call that raised.                                                       *)
InitLoss == InitNet({"Tensor"}, AnySources, {<<2, 3>>}, {3}, {<<>>})

NextLoss ==
  \/ ConstructLinearLayer
  \/ CallGetLossValue
  \/ CallGetErrorValue

SpecLoss == InitLoss /\ [][NextLoss]_vars

(* The network building recurrent layers over its inputs. *)
InitRec == InitNet({"Tensor"}, AnySources, {<<2, 3>>}, {3}, {<<>>})

NextRec == ConstructRecLayer

SpecRec == InitRec /\ [][NextRec]_vars

(* The network building convolution layers over its inputs. *)
InitConv == InitNet({"Tensor"}, ConvSources, {<<2, 3>>, <<1, 1>>}, {3}, {<<>>})

NextConv == ConstructConvLayer

SpecConv == InitConv /\ [][NextConv]_vars

(* The network building a description of three layers over its data; the   *)
(* build goes on until it has ended.                                       *)
InitBuild ==
  /\ InitLayers({"Tensor"}, DenseSources, {<<2, 3>>}, {3}, {<<>>})
  /\ cells = <<>>
  /\ losses = <<>>
  /\ \E desc \in [LayerNames -> LayerDescs] : build = NewBuild(desc)

NextBuild ==
  \/ RequestLayer
  \/ ResolveReference
  \/ ConstructLayer
  \/ EndBuild

SpecBuild == InitBuild /\ [][NextBuild]_vars /\ WF_vars(NextBuild)


(* The network looking up classes while it builds copy and activation      *)
(* layers.                                                                 *)
InitRegistry == InitNet({"Tensor"}, DenseSources, {<<2, 3>>}, {3}, {<<>>})

NextRegistry ==
  \/ CallGetLayerClass
  \/ CallGetLossClass
  \/ ConstructCopyLayer

SpecRegistry == InitRegistry /\ [][NextRegistry]_vars


(* The network over two external inputs, with the SourceLayer of the first *)
(* one built: it infers shapes and builds source layers and softmax layers *)
(* with targets and losses.                                                *)
NextShape ==
  \/ CallGetOutDataFromOpts
  \/ ConstructSourceLayer
  \/ ConstructSoftmaxLayer

(* The same network: it infers shapes from targets, builds source layers,  *)
(* softmax layers with targets and losses and statistics layers, and asks  *)
(* for losses.                                                             *)
InitUsed ==
  /\ InitExtern({"Tensor"}, AnySources, {<<2, 3>>}, {3}, {<<>>}, 1)
  /\ cells = <<>>
  /\ losses = <<>>
  /\ build = NoBuild

NextUsed ==
  \/ CallGetOutDataFromTarget
  \/ ConstructSourceLayer
  \/ ConstructSoftmaxLayer
  \/ ConstructFramewiseStatisticsLayer
  \/ CallGetLossValue
  \/ CallGetErrorValue

SpecShape == InitUsed /\ [][NextShape]_vars

SpecUsed == InitUsed /\ [][NextUsed]_vars


(* The network over time-major inputs, with the first one's SourceLayer:   *)
(* it builds recurrent layers, copy layers and get_last_hidden_state       *)
(* layers over them, and asks layers for their last hidden state.          *)
InitHidden ==
  /\ InitExtern({"Tensor"}, {[k \in 1..NumSources |-> DenseTimeMajor]},
                {<<2, 3>>}, {3}, {<<>>}, 1)
  /\ cells = <<>>
  /\ losses = <<>>
  /\ build = NoBuild

NextHidden ==
  \/ ConstructRecLayerForward
  \/ ConstructCopyLayerOver
  \/ ConstructGetLastHiddenStateLayer
  \/ CallGetLastHiddenState

SpecHidden == InitHidden /\ [][NextHidden]_vars


(* The network over inputs of every layout: it builds convolution and      *)
(* pooling layers.                                                         *)
NextPool ==
  \/ ConstructConvLayer
  \/ ConstructPoolLayer

SpecPool == InitConv /\ [][NextPool]_vars


(* A GeneratingDataset with three sequences or with no end, next to a      *)
(* network in which nothing is built: epochs begin, sequences are loaded   *)
(* and the number of time steps is asked for.                              *)
InitDataset ==
  /\ InitGraph({"Tensor"}, DenseSources, {<<2, 3>>}, {3}, {<<>>}, 0)
  /\ cells = <<>>
  /\ losses = <<>>
  /\ build = NoBuild
  /\ dataset \in {NewDataset(n) : n \in {3, Infinity}}

NextDataset ==
  \/ CallInitSeqOrder
  \/ CallLoadSeqs
  \/ CallGetNumTimesteps

SpecDataset == InitDataset /\ [][NextDataset]_vars


(* make_output_seq on every input sequence of up to MaxInputLen symbols *)
InitTask12AX ==
  /\ InitGraph({"Tensor"}, DenseSources, {<<2, 3>>}, {3}, {<<>>}, 0)
  /\ cells = <<>>
  /\ losses = <<>>
  /\ build = NoBuild
  /\ dataset \in {Task12AXDataset(s) : s \in InputSeqs}

NextTask12AX == CallMakeOutputSeq

SpecTask12AX == InitTask12AX /\ [][NextTask12AX]_vars

----------------------------------------------------------------------------
(* Properties. *)

(* a descriptor as a value: its fields, with the contents of its           *)
(* size_placeholder dict in place of the reference                         *)
Descriptor(d, dd, id) ==
  [d[id] EXCEPT !.size_placeholder = IF @ = 0 THEN <<>> ELSE dd[@]]

(* the size_placeholder dict of a descriptor *)
SizesOf(d, dd, id) == dd[d[id].size_placeholder]

IsCall(l, op) == l.op = op /\ l.ok

(* C1: after concat_sources_with_opt_dropout(sources, dropout) the output  *)
(* descriptor of every layer, its placeholder in particular, is what it    *)
(* was before the call.                                                    *)
C1_SharedDescriptorsUnchanged ==
  [][last'.op = "concat_sources_with_opt_dropout"
       => \A l \in DOMAIN layers :
            Descriptor(data', dicts', layers'[l].output)
              = Descriptor(data, dicts, layers[l].output)]_vars

(* C2: constructing a copy, activation or batch-norm layer over a single   *)
(* source leaves the output descriptor of that source as it was: its       *)
(* placeholder still is the source's own tensor.                           *)
C2_SingleSourceUnchanged ==
  [][(last'.op \in {"copy", "activation", "batch_norm"} /\ Len(last'.srcs) = 1)
       => LET s == last'.srcs[1]
          IN Descriptor(data', dicts', layers'[s].output)
               = Descriptor(data, dicts, layers[s].output)]_vars

(* C3: constructing a slice layer leaves the dynamic-length mapping of     *)
(* every layer that existed before, its source in particular, as it was.   *)
C3_SliceLeavesInputSizes ==
  [][last'.op = "slice"
       => \A l \in DOMAIN layers :
            SizesOf(data', dicts', layers'[l].output)
              = SizesOf(data, dicts, layers[l].output)]_vars

(* C4: a concat op is built at most once per tuple of sources and a        *)
(* dropout op at most once per tuple and rate, and a repeated request for  *)
(* a key returns the placeholder that the first request for it returned.   *)
C4_OncePerKeyAndSameAnswer ==
  /\ \A i, j \in DOMAIN ops :
       (/\ ops[i].kind \in {"concat", "dropout"}
        /\ ops[i].kind = ops[j].kind
        /\ ops[i].srcs = ops[j].srcs
        /\ ops[i].rate = ops[j].rate) => i = j
  /\ (/\ IsCall(last, "concat_sources_with_opt_dropout")
      /\ first_ret.key = CacheKey(last.srcs, last.dropout)
      /\ first_ret.placeholder # 0)
       => data[last.ret].placeholder = first_ret.placeholder

(* C5: with train_flag statically False no seed is ever drawn, no dropout  *)
(* op exists, the cache has no entry for a rate other than 0, and          *)
(* concat_sources_with_opt_dropout with any rate returns the plain         *)
(* concatenation: the source's own descriptor with its own placeholder, or *)
(* the concat op of exactly these sources.                                 *)
C5_NoDropoutWhenNotTraining ==
  train_flag = "False" =>
    /\ random_draws = 0
    /\ \A i \in DOMAIN ops : ops[i].kind # "dropout"
    /\ \A k \in DOMAIN concat_sources_dropout_cache : k[2] = 0
    /\ IsCall(last, "concat_sources_with_opt_dropout") =>
         LET p == data[last.ret].placeholder
         IN IF Len(last.srcs) = 1
            THEN /\ last.ret = layers[last.srcs[1]].output
                 /\ ops[p].kind = "input"
                 /\ ops[p].srcs = last.srcs
            ELSE /\ ops[p].kind = "concat"
                 /\ ops[p].srcs = last.srcs

C5_Witness ==
  /\ train_flag = "False"
  /\ IsCall(last, "concat_sources_with_opt_dropout")
  /\ last.dropout = 5
  /\ Len(last.srcs) = 2

(* C6: concat_sources with one source returns that layer's own output      *)
(* descriptor, the same object, builds no op and adds no cache entry; with *)
(* no source it fails.                                                     *)
C6_SingleSourceIdentity ==
  [][last'.op = "concat_sources"
       => /\ Len(last'.srcs) = 1
            => /\ last'.ok
               /\ last'.ret = layers'[last'.srcs[1]].output
               /\ Descriptor(data', dicts', last'.ret)
                    = Descriptor(data, dicts, layers[last'.srcs[1]].output)
               /\ ops' = ops
               /\ DOMAIN concat_sources_dropout_cache'
                    = DOMAIN concat_sources_dropout_cache
          /\ last'.srcs = <<>> => ~last'.ok]_vars

C6_Witness ==
  /\ IsCall(last, "concat_sources")
  /\ Len(last.srcs) = 1
  /\ last.ret = layers[last.srcs[1]].output
  /\ DOMAIN concat_sources_dropout_cache # {}

(* two or more dense sources with the same non-feature shape *)
DenseSameShape(srcs) ==
  /\ Len(srcs) >= 2
  /\ \A i \in DOMAIN srcs :
       LET o == OutputOf(Store, srcs[i])
       IN /\ ~o.sparse
          /\ o.shape # <<>>
          /\ Prefix(o.shape) = Prefix(OutputOf(Store, srcs[1]).shape)

(* the feature dim is the sum of the sources' dims; the rest is the first  *)
(* source's                                                                *)
SumOfDimsLikeFirst(d, srcs) ==
  LET first == OutputOf(Store, srcs[1])
      sum == SumSeq([i \in DOMAIN srcs |-> OutputOf(Store, srcs[i]).dim])
  IN /\ d.dim = sum
     /\ LastOf(d.shape) = sum
     /\ Prefix(d.shape) = Prefix(first.shape)
     /\ d.batch_dim_axis = first.batch_dim_axis
     /\ d.time_dim_axis = first.time_dim_axis
     /\ d.dtype = first.dtype

(* C7: for two or more dense sources of the same non-feature shape, the    *)
(* template of get_concat_sources_data_template and the descriptor that    *)
(* concat_sources returns have the sum of the sources' dims as feature     *)
(* dim, and the first source's non-feature shape, axes and dtype.          *)
C7_ConcatDimIsSum ==
  /\ \A srcs \in SrcTuples(Len(layers)) :
       DenseSameShape(srcs)
         => SumOfDimsLikeFirst(get_concat_sources_data_template(Store, srcs), srcs)
  /\ (IsCall(last, "concat_sources") /\ DenseSameShape(last.srcs))
       => SumOfDimsLikeFirst(data[last.ret], last.srcs)

C7_Witness ==
  /\ IsCall(last, "concat_sources")
  /\ DenseSameShape(last.srcs)
  /\ data[last.ret].dim = 5
  /\ data[last.ret].batch_dim_axis = 1

(* the layer that the last constructor call built *)
NewLayer(lay) == lay[Len(lay)]

(* the slice of the call l is along the time axis of the input d *)
SliceOnTime(l, d) ==
  IF l.arg.axis # None THEN l.arg.axis = d.time_dim_axis
  ELSE l.arg.axis_kind = "T"

(* the lengths, along the time axis, of the descriptor that a layer over   *)
(* srcs gets as its input_data in the current state                        *)
InputTimeLens(srcs, dropout) ==
  LET r == concat_sources_with_opt_dropout(Store, train_flag, srcs, dropout)
      d == r.st.data[r.ret]
  IN r.st.dicts[d.size_placeholder][time_dim_axis_excluding_batch(d)]

(* the lengths along the time axis that the new slice layer records *)
SliceOutputLens(d, dd, lay) ==
  SizesOf(d, dd, NewLayer(lay).output)[
    time_dim_axis_excluding_batch(d[NewLayer(lay).input_data])]

(* C8: a slice layer on the time axis with slice_start = k > 0 and neither *)
(* slice_end nor slice_step records, for every example, the length         *)
(* max(0, original length - k), which is never negative.                   *)
C8_SliceStartClamped ==
  [][(/\ IsCall(last', "slice")
      /\ SliceOnTime(last', data'[NewLayer(layers').input_data])
      /\ last'.arg.start > 0
      /\ last'.arg.end = None
      /\ last'.arg.step = None)
       => LET before == InputTimeLens(last'.srcs, last'.dropout)
              after == SliceOutputLens(data', dicts', layers')
          IN /\ DOMAIN after = DOMAIN before
             /\ \A i \in DOMAIN after :
                  /\ after[i] = Max(0, before[i] - last'.arg.start)
                  /\ after[i] >= 0]_vars

(* a slice from 2 over the concatenation of two layers whose examples have *)
(* the lengths 1 and 3: the lengths 0 and 1 are recorded                   *)
C8_Witness ==
  /\ IsCall(last, "slice")
  /\ SliceOnTime(last, data[NewLayer(layers).input_data])
  /\ last.arg.start = 2 /\ last.arg.end = None /\ last.arg.step = None
  /\ Len(last.srcs) = 2
  /\ SizesOf(data, dicts, layers[last.srcs[1]].output)[0] = <<1, 3>>
  /\ SliceOutputLens(data, dicts, layers) = <<0, 1>>

(* C9: a slice layer on the time axis with slice_end = e > 0 and neither   *)
(* slice_start nor slice_step records, for every example,                  *)
(* min(original length, e), whatever the physical time extent is.          *)
C9_SliceEndClamped ==
  [][(/\ IsCall(last', "slice")
      /\ SliceOnTime(last', data'[NewLayer(layers').input_data])
      /\ last'.arg.end > 0
      /\ last'.arg.start = None
      /\ last'.arg.step = None)
       => LET before == InputTimeLens(last'.srcs, last'.dropout)
              after == SliceOutputLens(data', dicts', layers')
          IN /\ DOMAIN after = DOMAIN before
             /\ \A i \in DOMAIN after :
                  after[i] = Min(before[i], last'.arg.end)]_vars

(* the key in the dynamic-length mapping of the axis a, which is counted   *)
(* with the batch axis at enforce_batch_dim_axis = 0: None for the batch   *)
(* axis                                                                    *)
ReducedKey(a) == IF a = 0 THEN None ELSE a - 1

(* sizes without the entry of key, the entries above it moved down by one, *)
(* the entries below it kept; all of sizes if key is None                  *)
SizesWithoutAxis(sizes, key) ==
  IF key = None THEN sizes
  ELSE [k \in {j \in DOMAIN sizes : j < key}
              \cup {j - 1 : j \in {i \in DOMAIN sizes : i > key}} |->
          IF k < key THEN sizes[k] ELSE sizes[k + 1]]

(* C10: a reduce layer without keep_dims that reduces one axis records the *)
(* input's dynamic-length mapping without the entry of that axis, higher   *)
(* entries renumbered down by one, lower ones kept; an axis without an     *)
(* entry, such as the batch axis, removes none.                            *)
C10_ReduceRemovesTheAxis ==
  (IsCall(last, "reduce") /\ ~last.arg.keep_dims)
    => LET in == NewLayer(layers).input_data
           axes == ReduceLayer_get_axis(last.arg.axis, data[in]).axes
       IN Cardinality(axes) = 1
            => SizesOf(data, dicts, NewLayer(layers).output)
                 = SizesWithoutAxis(SizesOf(data, dicts, in),
                                    ReducedKey(CHOOSE a \in axes : TRUE))

(* C11: a reduce layer with keep_dims records a dynamic-length mapping with *)
(* the keys of its input's mapping: the entry of every reduced axis        *)
(* (counted with the batch axis at 0, so the key a - 1 for the axis a) is  *)
(* 1, every other entry is the input's; no key is renumbered.              *)
C11_ReduceKeepDimsSetsOne ==
  (IsCall(last, "reduce") /\ last.arg.keep_dims)
    => LET in == NewLayer(layers).input_data
           axes == ReduceLayer_get_axis(last.arg.axis, data[in]).axes
           before == SizesOf(data, dicts, in)
           after == SizesOf(data, dicts, NewLayer(layers).output)
       IN /\ DOMAIN after = DOMAIN before
          /\ \A k \in DOMAIN before :
               after[k] = IF \E a \in axes : ReducedKey(a) = k
                          THEN Scalar(1) ELSE before[k]

(* the last call was get_loss_value or get_error_value on a layer that has *)
(* a loss                                                                  *)
IsLossCall(l, ls) ==
  /\ l.op \in {"get_loss_value", "get_error_value"}
  /\ l.srcs[1] \in DOMAIN ls
  /\ ls[l.srcs[1]].loss.cls # "none"

(* the output and the target of the layer the call l was on *)
LossOutput(l) == data[layers[l.srcs[1]].output]
LossTarget(l) == data[layers[losses[l.srcs[1]].target].output]

(* C12: a get_loss_value or get_error_value call in which the loss's       *)
(* get_value or get_error ran to its end was on an output and a target     *)
(* with output.ndim_dense = target.ndim_dense and output.dim =             *)
(* get_auto_output_layer_dim(target.dim): on a violating pair every such   *)
(* call fails, also one repeated after a call that failed.                 *)
C12_LossOnlyOnCheckedPair ==
  (IsLossCall(last, losses) /\ last.ok)
    => /\ ndim_dense(LossOutput(last)) = ndim_dense(LossTarget(last))
       /\ LossOutput(last).dim =
            get_auto_output_layer_dim(losses[last.srcs[1]].loss.cls,
                                      LossTarget(last).dim)

(* C13: when the loss's get_value or get_error has computed, the loss's    *)
(* init has masked and flattened the output and the target before; init    *)
(* is entered at most once on an unchanged output descriptor; a layer      *)
(* without a loss returns None from both calls and never enters init.      *)
C13_InitBeforeLossOnce ==
  /\ (IsLossCall(last, losses) /\ last.ok)
       => LET L == losses[last.srcs[1]].loss
          IN /\ L.target_flat # 0
             /\ L.output_flat # 0 \/ L.output_before_softmax_flat # 0
  /\ \A i \in DOMAIN losses : losses[i].loss.inits <= 1
  /\ (last.op \in {"get_loss_value", "get_error_value"}
        /\ ~IsLossCall(last, losses))
       => /\ last.ok /\ last.ret = 0
          /\ ~last.arg.executed /\ ~last.arg.inited

(* C14: a get_loss_value or get_error_value call on a layer with the CTC   *)
(* loss and a dense target raises, and no tensor has been built by the     *)
(* call when it raises.                                                    *)
C14_CtcDenseRaisesBeforeAnyOp ==
  [][(/\ IsLossCall(last', losses')
      /\ losses'[last'.srcs[1]].loss.cls = "ctc"
      /\ ~data'[layers'[losses'[last'.srcs[1]].target].output].sparse)
       => (~last'.ok /\ ops' = ops)]_vars

(* the last call built a linear layer with neither n_out nor out_type but  *)
(* with a target or a loss                                                 *)
InferredDimCall(l) ==
  /\ l.op = "linear" /\ l.ok
  /\ l.arg.n_out = None
  /\ l.arg.target # 0 \/ l.arg.loss # "none"

(* the target of such a call: the given one, else the default target *)
InferredDimTarget(l) ==
  data[layers[IF l.arg.target # 0 THEN l.arg.target ELSE NumSources].output]

(* C15: a layer declared with a target, or with a loss and so the default  *)
(* target, and with neither n_out nor out_type has the output dim          *)
(* target.dim under ce, generic_ce and no loss, and target.dim + 1 under   *)
(* the CTC loss, so the dim passes the dim check of the loss's init.       *)
C15_InferredOutputDim ==
  InferredDimCall(last)
    => LET dim == data[NewLayer(layers).output].dim
           tdim == InferredDimTarget(last).dim
       IN /\ last.arg.loss \in {"none", "ce", "generic_ce"} => dim = tdim
          /\ last.arg.loss = "ctc" => dim = tdim + 1

(* a layer with the CTC loss and the default target has got the target's   *)
(* dim and one more                                                        *)
C15_Witness ==
  /\ InferredDimCall(last)
  /\ last.arg.loss = "ctc" /\ last.arg.target = 0
  /\ data[NewLayer(layers).output].dim = data[layers[NumSources].output].dim + 1

(* the last call was RecLayer's constructor, asked for attention or for    *)
(* output feedback, as True or as an options record                        *)
RecRequested(l) ==
  /\ l.op = "rec"
  /\ l.arg.attention # "False" \/ l.arg.output_feedback # "False"

(* C17: a recurrent layer asked for attention or output feedback (True or  *)
(* an options record) with a fused or native-sequence unit, or with        *)
(* bidirectional=True, is not built: the constructor raises.               *)
C17_AttentionUnsupportedRaises ==
  (/\ RecRequested(last)
   /\ \/ last.arg.unit \in {"lstmblockfused", "nativelstm"}
      \/ last.arg.bidirectional)
    => ~last.ok

(* C18: a recurrent layer asked for attention or output feedback with a    *)
(* step cell and without bidirectional, over one dense input and with      *)
(* n_out given, is built: its output has the produced sequence as          *)
(* placeholder and the produced lengths as size_placeholder[0].            *)
C18_AttentionLoopBuilds ==
  (/\ RecRequested(last)
   /\ last.arg.attention \in {"False", "True"}
   /\ last.arg.output_feedback \in {"False", "True"}
   /\ last.arg.unit \in {"basiclstm", "lstmblock"}
   /\ ~last.arg.bidirectional /\ last.arg.direction = None
   /\ last.arg.n_out # None /\ last.srcs = <<1>>)
    => /\ last.ok
       /\ data[NewLayer(layers).output].placeholder # 0
       /\ 0 \in DOMAIN dicts[data[NewLayer(layers).output].size_placeholder]

(* the last call was RecLayer's constructor with bidirectional=True and    *)
(* n_out given                                                             *)
RecBidirectional(l) ==
  l.op = "rec" /\ l.arg.bidirectional /\ l.arg.n_out # None

(* C19: RecLayer's constructor with bidirectional=True and an odd output   *)
(* dim raises without having constructed a cell; with an even dim it       *)
(* constructs two cells of width dim/2 each, or none where the layer is    *)
(* refused before (no input, or a direction given as well), and two        *)
(* whenever it has one input and no direction.                             *)
C19_BidirectionalSplitsWidth ==
  RecBidirectional(last)
    => /\ last.arg.n_out % 2 # 0 => ~last.ok /\ cells = <<>>
       /\ last.arg.n_out % 2 = 0
            => /\ cells = <<>>
                  \/ /\ Len(cells) = 2
                     /\ \A i \in 1..2 : 2 * cells[i].n_hidden = last.arg.n_out
               /\ (Len(last.srcs) = 1 /\ last.arg.direction = None)
                    => Len(cells) = 2

(* a bidirectional layer with n_out = 8 is built with two cells of width 4 *)
C19_Witness ==
  /\ RecBidirectional(last) /\ last.ok
  /\ last.arg.n_out = 8
  /\ Len(cells) = 2 /\ cells[1].n_hidden = 4 /\ cells[2].n_hidden = 4

(* the names a layer's description refers to: its "from" without "none"   *)
(* (the data if it has no "from") and its initial_state                    *)
DeclaredRefs(d) ==
  (IF d.has_from THEN Range(d.from) \ {"none"} ELSE {"data"})
    \cup Range(d.initial_state)

(* every name referred to is the data or a declared layer *)
Resolvable(desc) ==
  \A n \in DOMAIN desc : DeclaredRefs(desc[n]) \subseteq DOMAIN desc \cup {"data"}

(* the layers that the layers of S refer to, through up to k references *)
RECURSIVE RefsWithin(_, _, _)
RefsWithin(desc, S, k) ==
  IF k = 0 THEN {}
  ELSE LET R == UNION {DeclaredRefs(desc[m]) \cap DOMAIN desc : m \in S}
       IN R \cup RefsWithin(desc, R, k - 1)

(* no layer refers to itself, through however many references *)
Acyclic(desc) ==
  \A n \in DOMAIN desc : n \notin RefsWithin(desc, {n}, Cardinality(DOMAIN desc))

(* each declared layer is in the layer map, as a layer of its own with an  *)
(* output descriptor, and its constructor has run once                     *)
BuiltOnce(b) ==
  /\ \A n \in DOMAIN b.desc :
       /\ b.constructed[n] = 1
       /\ n \in DOMAIN b.map
       /\ b.map[n] \in DOMAIN layers
       /\ layers[b.map[n]].output \in DOMAIN data
       /\ data[layers[b.map[n]].output].placeholder # 0
  /\ \A n, m \in DOMAIN b.map : n # m => b.map[n] # b.map[m]
  /\ Len(layers) = NumSources + Cardinality(DOMAIN b.desc)

C16_Invariant ==
  (Acyclic(build.desc) /\ Resolvable(build.desc))
    => /\ build.status # "unresolved"
       /\ \A n \in DOMAIN build.desc : build.constructed[n] <= 1
       /\ build.status = "done" => BuiltOnce(build)

ConvInputLength(lay, i, arg) ==
  LET d == data[lay.input_data]
      sizes == dicts[d.size_placeholder]
      xshape == ConvXShape(d, arg.input_add_feature_dim,
                           arg.input_split_feature_dim)
  IN IF i \in DOMAIN sizes THEN sizes[i]
     ELSE IF i < Len(xshape) - 1 THEN Scalar(xshape[i + 1])
     ELSE Scalar(1)

(* C20: a conv layer records, for every axis it convolves over, with       *)
(* "valid" padding the input length minus (filter_size - 1), and with      *)
(* "same" padding the input length; the input length is the per-example    *)
(* length where the input descriptor has one for the axis and else the     *)
(* input's extent on the axis.                                             *)
C20_ConvRecordedLengths ==
  (last.op = "conv" /\ last.ok)
    => LET lay == NewLayer(layers)
           out == dicts[data[lay.output].size_placeholder]
           f == last.arg.filter_size
       IN \A i \in 0..(Len(f) - 1) :
            /\ i \in DOMAIN out
            /\ \A k \in DOMAIN out[i] :
                 out[i][k] = ConvInputLength(lay, i, last.arg)[k]
                             - (IF last.arg.padding = "VALID"
                                THEN f[i + 1] - 1 ELSE 0)

(* the input a conv layer on the sources srcs gets: the descriptor of the  *)
(* first source, whose axes every further source has to share              *)
ConvRequestInput(srcs) == data[layers[srcs[1]].output]

(* the axes of x after the reshaping options: those of the input, two for  *)
(* the last one with input_split_feature_dim, one more with                *)
(* input_add_feature_dim; of them, the axes with a static extent           *)
ConvStaticAxes(d, arg) ==
  Cardinality({i \in DOMAIN d.shape : d.shape[i] # None})
  + (IF Truthy(arg.input_split_feature_dim) THEN 1 ELSE 0)
  + (IF arg.input_add_feature_dim THEN 1 ELSE 0)

(* the spatial axes: every axis but the one feature axis, and those that   *)
(* input_expand_dims adds                                                  *)
ConvSpatialAxes(d, arg) ==
  Len(d.shape)
  + (IF Truthy(arg.input_split_feature_dim) THEN 1 ELSE 0)
  + (IF arg.input_add_feature_dim THEN 1 ELSE 0)
  - (IF ConvStaticAxes(d, arg) >= 1 THEN 1 ELSE 0)
  + arg.input_expand_dims

ConvAxesFit(c) ==
  /\ c.srcs # <<>>
  /\ ConvStaticAxes(ConvRequestInput(c.srcs), c.arg) >= 1
  /\ ConvSpatialAxes(ConvRequestInput(c.srcs), c.arg) = Len(c.arg.filter_size)

(* C21: a conv layer is built only if, after input_split_feature_dim,      *)
(* input_add_feature_dim and input_expand_dims, the number of spatial axes *)
(* is len(filter_size) and one static feature axis remains; otherwise the  *)
(* constructor raises and no seed has been drawn for a filter parameter,   *)
(* and no convolution is in the graph.                                     *)
C21_ConvBuiltOnlyIfAxesFit ==
  [][ last'.op = "conv"
        => /\ last'.ok => ConvAxesFit(last')
           /\ ~ConvAxesFit(last')
                => /\ ~last'.ok
                   /\ random_draws' = random_draws
                   /\ layers' = layers
                   /\ \A i \in DOMAIN ops' : ops'[i].kind # "conv" ]_vars

(* a conv layer on a dense input was rejected: with its feature axis split *)
(* in two, the input has more spatial axes than the filter, and no seed    *)
(* has been drawn                                                          *)
C21_Witness ==
  /\ last.op = "conv" /\ ~last.ok /\ last.srcs # <<>>
  /\ ~OutputOf(Store, last.srcs[1]).sparse
  /\ ConvSpatialAxes(ConvRequestInput(last.srcs), last.arg)
       > Len(last.arg.filter_size)
  /\ last.arg.input_split_feature_dim = 2
  /\ random_draws = 0

(* the registry as _init_layer_class_dict leaves it: every class of the    *)
(* module with a layer_class under that name, and LinearLayer under        *)
(* "forward" too                                                           *)
FullLayerClassDict ==
  [n \in {"source", "copy", "activation", "batch_norm", "slice", "linear",
          "softmax", "conv", "pool", "reduce", "get_last_hidden_state",
          "rnn_cell", "rec", "fsa", "combine", "subnetwork",
          "framewise_statistics", "forward"} |->
     IF n = "forward" THEN "LinearLayer"
     ELSE (CHOOSE c \in Range(ModuleLayerClasses) : c.layer_class = n).name]

(* C22: the registry of layer classes is written by the first lookup only: *)
(* it is empty until then, full after it, and no later step - a lookup of  *)
(* a registered or an unregistered name, or anything else the network      *)
(* does - adds, removes or replaces an entry; a lookup of an unregistered  *)
(* name raises an error naming it, and a lookup of a registered name       *)
(* gives the class registered under it.                                    *)
C22_RegistryWriteOnce ==
  [][ /\ LayerClassDict' # LayerClassDict
        => /\ DOMAIN LayerClassDict = {}
           /\ last'.op = "get_layer_class"
      /\ last'.op = "get_layer_class"
        => /\ LayerClassDict' = FullLayerClassDict
           /\ IF last'.arg.name \in DOMAIN FullLayerClassDict
              THEN last'.ok /\ last'.arg.ret = FullLayerClassDict[last'.arg.name]
              ELSE /\ ~last'.ok
                   /\ last'.arg.exc = "Exception"
                   /\ last'.arg.arg = last'.arg.name ]_vars

(* a name of no class was looked up after the registry had been filled by  *)
(* an earlier lookup, and layers have been built                           *)
C22_Witness ==
  /\ last.op = "get_layer_class" /\ ~last.ok /\ last.arg.name = "lstm"
  /\ DOMAIN LayerClassDict # {}
  /\ Len(layers) > NumSources

(* every layer's output descriptor is after the step what it was before *)
LayerDescriptorsUnchanged ==
  \A i \in DOMAIN layers :
    Descriptor(data', dicts', layers'[i].output)
      = Descriptor(data, dicts, layers[i].output)

(* the step has built the SourceLayer that reads the external input k *)
SourceLayerReads(k) ==
  /\ last'.op = "source" /\ Len(layers') = Len(layers) + 1
  /\ layers'[Len(layers')].output = k

(* the step has initialised the loss of a layer whose target is k *)
LossInitialisedFor(k) ==
  /\ last'.op \in {"get_loss_value", "get_error_value"}
  /\ last'.arg.inited
  /\ TargetOf(last'.srcs[1]) = k

(* C23: a call that only infers a shape (of LayerBase, with or without a   *)
(* target to take the width from, of SourceLayer, CopyLayer or ConvLayer)  *)
(* marks no external input as used and changes neither the caller's        *)
(* out_type nor a layer's descriptor; and an external input becomes marked *)
(* as used only in a step that builds the SourceLayer reading it or that   *)
(* initialises a loss with it as the target.                               *)
C23_OnlySourceAndLossMark ==
  [][ /\ last'.op = "get_out_data_from_opts"
        => /\ used_data_keys' = used_data_keys
           /\ last'.arg.out_type_after = last'.arg.out_type
           /\ LayerDescriptorsUnchanged
      /\ \A k \in used_data_keys' \ used_data_keys :
           SourceLayerReads(k) \/ LossInitialisedFor(k) ]_vars

(* the part of it about shape inference alone *)
C23_ShapeInferenceMarksNothing ==
  [][ last'.op = "get_out_data_from_opts"
        => /\ used_data_keys' = used_data_keys
           /\ last'.arg.out_type_after = last'.arg.out_type
           /\ LayerDescriptorsUnchanged ]_vars

(* the last step was LayerBase's shape inference for a layer that says     *)
(* nothing about its width: no n_out, no out_type, no target and no loss   *)
ShapeAskedWithoutHint ==
  /\ last.op = "get_out_data_from_opts" /\ last.arg.variant = "base"
  /\ last.arg.n_out = None /\ last.arg.out_type = OutTypeNone
  /\ last.arg.target = 0 /\ last.arg.loss = "none"

(* the last step was LayerBase's shape inference for a layer whose n_out   *)
(* and out_type["dim"] are both given and differ                           *)
ShapeAskedWithTwoWidths ==
  /\ last.op = "get_out_data_from_opts" /\ last.arg.variant = "base"
  /\ last.arg.n_out # None /\ last.arg.out_type # OutTypeNone
  /\ "dim" \in DOMAIN last.arg.out_type
  /\ last.arg.out_type["dim"] # last.arg.n_out

(* C24: LayerBase's shape inference for a layer with neither n_out nor     *)
(* out_type nor target nor loss raises, with or without sources, and so    *)
(* does the one for a layer whose n_out and out_type["dim"] are both given *)
(* and differ; neither returns a descriptor.                               *)
C24_NoWidthOrTwoWidthsRaises ==
  ShapeAskedWithoutHint \/ ShapeAskedWithTwoWidths
    => ~last.ok /\ last.ret = 0

(* shape inference was asked without any hint for a layer over a source    *)
(* whose feature dim is known, and it raised                               *)
C24_Witness ==
  /\ ShapeAskedWithoutHint
  /\ last.srcs # <<>> /\ data[layers[last.srcs[1]].output].dim = 2
  /\ ~last.ok

(* the layer i carries a recurrent state of its own *)
HasOwnState(i) == i \in DOMAIN last_hidden_state

(* the terminal states that the layer i has, by the claim's reading: its   *)
(* own one, or else the ones its declared sources have, in source order    *)
RECURSIVE TerminalStates(_)
RECURSIVE TerminalStatesOfAll(_)
TerminalStatesOfAll(srcs) ==
  IF srcs = <<>> THEN <<>>
  ELSE TerminalStates(Head(srcs)) \o TerminalStatesOfAll(Tail(srcs))
TerminalStates(i) ==
  IF HasOwnState(i)
  THEN IF last_hidden_state[i] = NoHiddenState THEN <<>>
       ELSE <<last_hidden_state[i]>>
  ELSE TerminalStatesOfAll(layers[i].sources)

(* the last step built or tried to build a get_last_hidden_state layer   *)
(* over sources one of which has no terminal state                         *)
AskedLayerOverStateless ==
  /\ last.op = "get_last_hidden_state_layer"
  /\ \E k \in DOMAIN last.srcs : TerminalStates(last.srcs[k]) = <<>>

(* the last step asked a layer without state of its own for its last       *)
(* hidden state                                                            *)
AskedFallback ==
  /\ last.op = "get_last_hidden_state"
  /\ ~HasOwnState(last.srcs[1])

(* C25: a get_last_hidden_state layer over a source without terminal state *)
(* is not built; and a layer without recurrent state of its own, asked for *)
(* its last hidden state, reports None if none of its sources has one,     *)
(* the single one found if there is one, and otherwise the concatenation   *)
(* of all found, in source order.                                          *)
C25_LastHiddenStateOfSources ==
  /\ AskedLayerOverStateless => ~last.ok
  /\ AskedFallback =>
       LET found == TerminalStates(last.srcs[1])
       IN /\ last.ok
          /\ found = <<>> => last.arg.h = NoHiddenState
          /\ Len(found) = 1 => last.arg.h = found[1]
          /\ Len(found) > 1 => last.arg.h.parts = PartsOf(found)

(* the first part alone *)
C25_NoLayerOverStateless == AskedLayerOverStateless => ~last.ok

(* the second part for layers whose sources' states are tensors (batch,    *)
(* dim)                                                                    *)
C25_FallbackOverTensors ==
  AskedFallback
    /\ (\A k \in DOMAIN TerminalStates(last.srcs[1]) :
          LET h == TerminalStates(last.srcs[1])[k]
          IN h.is_tensor /\ h.ndims = 2)
    => LET found == TerminalStates(last.srcs[1])
       IN /\ last.ok
          /\ found = <<>> => last.arg.h = NoHiddenState
          /\ Len(found) = 1 => last.arg.h = found[1]
          /\ Len(found) > 1 => last.arg.h.parts = PartsOf(found)

(* the physical time extent of the tensor that the new slice layer puts    *)
(* out                                                                     *)
SliceOutputExtent(d, o, lay) == o[d[NewLayer(lay).output].placeholder].T

(* C26: a slice layer on the time axis that is built, whatever slice_start,*)
(* slice_end and slice_step are, records for every example a length that   *)
(* is at least 0 and at most the physical time extent of the sliced        *)
(* output tensor.                                                          *)
C26_SliceLengthsWithinOutput ==
  [][(/\ IsCall(last', "slice")
      /\ SliceOnTime(last', data'[NewLayer(layers').input_data]))
       => LET after == SliceOutputLens(data', dicts', layers')
          IN \A i \in DOMAIN after :
               /\ after[i] >= 0
               /\ after[i] <= SliceOutputExtent(data', ops', layers')]_vars

(* the same for the layers without slice_end *)
C26_WithoutSliceEnd ==
  [][(/\ IsCall(last', "slice")
      /\ SliceOnTime(last', data'[NewLayer(layers').input_data])
      /\ last'.arg.end = None)
       => LET after == SliceOutputLens(data', dicts', layers')
          IN \A i \in DOMAIN after :
               /\ after[i] >= 0
               /\ after[i] <= SliceOutputExtent(data', ops', layers')]_vars

(* the number of positions a window of extent w has on an axis of extent   *)
(* n at the stride s: the extent of the output tensor with "valid" padding *)
WindowPositions(n, w, s) == IF n < w THEN 0 ELSE (n - w) \div s + 1

(* the extent of the conv layer's reshaped input on the axis i *)
ConvInputExtent(lay, i, arg) ==
  LET d == data[lay.input_data]
      xshape == ConvXShape(d, arg.input_add_feature_dim,
                           arg.input_split_feature_dim)
  IN IF i >= Len(xshape) - 1 THEN 1
     ELSE IF xshape[i + 1] # None THEN xshape[i + 1]
     ELSE ops[d.placeholder].T + i

(* the extent of the pool layer's input on the axis i *)
PoolInputExtent(lay, i) ==
  LET d == data[lay.input_data]
  IN IF d.shape[i + 1] # None THEN d.shape[i + 1] ELSE ops[d.placeholder].T + i

(* the lengths that the new layer records for the axis i are at least 0    *)
(* and at most n                                                           *)
RecordedWithin(i, n) ==
  LET out == dicts[data[NewLayer(layers).output].size_placeholder]
  IN i \in DOMAIN out => \A k \in DOMAIN out[i] : out[i][k] >= 0 /\ out[i][k] <= n

(* C27: a convolution or pooling layer with "valid" padding that is built  *)
(* records for every axis it works on lengths that are at least 0 and at   *)
(* most the extent of its output tensor on that axis, whatever the window, *)
(* the stride (pooling with the default stride included) and the input     *)
(* lengths are.                                                            *)
C27_ValidLengthsWithinOutput ==
  /\ (last.op = "conv" /\ last.ok /\ last.arg.padding = "VALID")
       => \A i \in 0..(Len(last.arg.filter_size) - 1) :
            RecordedWithin(i, WindowPositions(
              ConvInputExtent(NewLayer(layers), i, last.arg),
              last.arg.filter_size[i + 1], 1))
  /\ (last.op = "pool" /\ last.ok /\ last.arg.padding = "VALID")
       => \A i \in 0..(Len(last.arg.pool_size) - 1) :
            RecordedWithin(i, WindowPositions(
              PoolInputExtent(NewLayer(layers), i),
              last.arg.pool_size[i + 1],
              PoolStrides(last.arg.strides, last.arg.pool_size)[i + 1]))

(* the same for convolution, and for pooling with the stride 1 *)
C27_StrideOne ==
  /\ (last.op = "conv" /\ last.ok /\ last.arg.padding = "VALID")
       => \A i \in 0..(Len(last.arg.filter_size) - 1) :
            RecordedWithin(i, WindowPositions(
              ConvInputExtent(NewLayer(layers), i, last.arg),
              last.arg.filter_size[i + 1], 1))
  /\ (/\ last.op = "pool" /\ last.ok /\ last.arg.padding = "VALID"
      /\ \A i \in DOMAIN last.arg.pool_size :
           PoolStrides(last.arg.strides, last.arg.pool_size)[i] = 1)
       => \A i \in 0..(Len(last.arg.pool_size) - 1) :
            RecordedWithin(i, WindowPositions(
              PoolInputExtent(NewLayer(layers), i),
              last.arg.pool_size[i + 1], 1))

(* the indices of the sequences seqs are strictly increasing *)
IncreasingIdx(seqs) ==
  \A k \in 1..(Len(seqs) - 1) : seqs[k].seq_idx < seqs[k + 1].seq_idx

(* the indices of the sequences seqs are consecutive *)
ConsecutiveIdx(seqs) ==
  \A k \in 1..(Len(seqs) - 1) : seqs[k + 1].seq_idx = seqs[k].seq_idx + 1

(* C28: within an epoch, whatever _load_seqs calls with start >=           *)
(* expected_load_seq_start are made, expected_load_seq_start never         *)
(* decreases, generate_seq is called at most once per index and in         *)
(* strictly increasing order of the indices, and added_data holds          *)
(* sequences of consecutive increasing indices, none below                 *)
(* expected_load_seq_start.                                                *)
C28_LoadSeqsInOrder ==
  [][ /\ dataset'.epoch = dataset.epoch
        => dataset'.expected_load_seq_start >= dataset.expected_load_seq_start
      /\ IncreasingIdx(dataset'.generate_calls)
      /\ ConsecutiveIdx(dataset'.added_data)
      /\ \A k \in DOMAIN dataset'.added_data :
           dataset'.added_data[k].seq_idx >= dataset'.expected_load_seq_start
    ]_vars

(* sequences 0 to 3 have been generated in two or more calls, the first    *)
(* two of them are cleaned up and sequence 2 is expected next              *)
C28_Witness ==
  /\ last.op = "load_seqs" /\ last.ok
  /\ Len(dataset.generate_calls) = 4
  /\ dataset.expected_load_seq_start = 2
  /\ Len(dataset.added_data) = 2
  /\ dataset.added_data[1].seq_idx = 2

(* the frames of the sequences generated in the epoch *)
GeneratedFrames ==
  SumSeq([k \in DOMAIN dataset.generate_calls |->
            dataset.generate_calls[k].num_frames])

(* C29: with a finite num_seqs, reached_final_seq becomes true in a        *)
(* _load_seqs call with end >= num_seqs, and every such call that passes   *)
(* its assert makes it true; no sequence of an index >= num_seqs is        *)
(* generated; once it is true, a _load_seqs call in the same epoch         *)
(* generates nothing and leaves _num_timesteps; get_num_timesteps raises   *)
(* while it is false and afterwards returns the sum of num_frames of the   *)
(* sequences generated in the epoch.                                       *)
C29_FinalSeq ==
  [][ dataset.num_seqs # Infinity =>
        /\ (~dataset.reached_final_seq /\ dataset'.reached_final_seq)
             => /\ last'.op = "load_seqs" /\ last'.ok
                /\ last'.arg.end >= dataset.num_seqs
        /\ (last'.op = "load_seqs" /\ last'.ok
              /\ last'.arg.end >= dataset.num_seqs)
             => dataset'.reached_final_seq
        /\ \A k \in DOMAIN dataset'.generate_calls :
             dataset'.generate_calls[k].seq_idx < dataset.num_seqs
        /\ (dataset.reached_final_seq /\ last'.op = "load_seqs")
             => /\ dataset'.generate_calls = dataset.generate_calls
                /\ dataset'.num_timesteps = dataset.num_timesteps
        /\ last'.op = "get_num_timesteps"
             => /\ last'.ok <=> dataset.reached_final_seq
                /\ last'.ok => last'.ret = GeneratedFrames
    ]_vars

(* the number of time steps was asked for after the last of the three      *)
(* sequences was reached by a call with an end beyond it, and before that  *)
(* sequences were loaded and cleaned up: it is the sum over all that were  *)
(* generated                                                               *)
C29_Witness ==
  /\ dataset.num_seqs = 3
  /\ last.op = "get_num_timesteps" /\ last.ok
  /\ Len(dataset.generate_calls) = 3
  /\ Len(dataset.added_data) < 3
  /\ last.ret = GeneratedFrames /\ last.ret > 3

(* the symbol at position i of the input of the last call *)
SymbolAt(i) == input_classes[last.arg[i] + 1]

(* the most recent symbol among S before position i of the input of the    *)
(* last call, "" where there is none                                       *)
MostRecent(S, i) ==
  LET ks == {k \in 1..(i - 1) : SymbolAt(k) \in S}
  IN IF ks = {} THEN ""
     ELSE SymbolAt(CHOOSE k \in ks : \A j \in ks : j <= k)

(* position i of the input is c after the outer symbol and the inner       *)
(* symbol, as the most recent ones of their kinds                          *)
Answers(i, outer, inner, c) ==
  /\ SymbolAt(i) = c
  /\ MostRecent({"1", "2"}, i) = outer
  /\ MostRecent({"A", "B", "X", "Y"}, i) = inner

(* C30: make_output_seq returns as many outputs as it is given inputs;     *)
(* the output at a position is "R" exactly where the input is X, the most  *)
(* recent of 1 and 2 before it is 1 and the most recent of A, B, X and Y   *)
(* before it is A, or the same with Y, 2 and B, and "L" everywhere else;   *)
(* an iteration on 3, C or Z leaves outer_state and inner_state.           *)
C30_MakeOutputSeq ==
  last.op = "make_output_seq" =>
    /\ last.ok
    /\ Len(last.ret) = Len(last.arg)
    /\ \A i \in DOMAIN last.arg :
         /\ last.ret[i] = ClassIndex(output_classes, "R")
              <=> \/ Answers(i, "1", "A", "X")
                  \/ Answers(i, "2", "B", "Y")
         /\ last.ret[i] \in {ClassIndex(output_classes, "L"),
                             ClassIndex(output_classes, "R")}
         /\ SymbolAt(i) \in {"3", "C", "Z"}
              => /\ make_output_seq_loop(last.arg, i).outer_state
                      = make_output_seq_loop(last.arg, i - 1).outer_state
                 /\ make_output_seq_loop(last.arg, i).inner_state
                      = make_output_seq_loop(last.arg, i - 1).inner_state

(* 1 A Z X X: the first X is answered with "R" across the Z, the second    *)
(* one with "L"                                                            *)
C30_Witness ==
  /\ last.op = "make_output_seq"
  /\ last.arg = <<0, 3, 8, 6, 6>>
  /\ last.ret = <<0, 0, 0, 1, 0>>

====
